---- MODULE Spec2Model ----
(***************************************************************************)
(* A model of the streaming attention simulator: dataflow blocks (Map,     *)
(* Reduce, Scan, Repeat, Zip, Flatmap, Matmul) exchanging time-stamped     *)
(* elements over bounded channels, each block with a local clock.          *)
(*                                                                         *)
(* A block suspends only inside a channel operation, so one step of a      *)
(* block is one channel operation that may block, together with the        *)
(* non-suspending code that follows it up to the next such operation.      *)
(* Blocking is blocking in real time (the element or the free slot is      *)
(* not there yet); the simulated clocks are data carried by the steps.     *)
(***************************************************************************)
EXTENDS Integers, Sequences, FiniteSets, TLC

VARIABLES
    net,    \* the graph and its configuration, fixed at construction
    chan,   \* channel id -> the channel's state
    blk,    \* block id -> the block's local state
    ref     \* elapsed_cycles of an earlier run of the same graph, if any

vars == <<net, chan, blk, ref>>

----------------------------------------------------------------------------
(* Bounds of the model *)

MaxLen == 4      \* longest generated input stream of a primitive test graph
MaxDepth == 2    \* deepest channel
MaxW == 2        \* largest window (reset_freq) and repeat count

----------------------------------------------------------------------------
(* Small helpers *)

Max(a, b) == IF a >= b THEN a ELSE b

Range(s) == {s[i] : i \in DOMAIN s}

Last(seq) == seq[Len(seq)]

None == <<>>
Some(x) == <<x>>

Elem(t, d) == [time |-> t, data |-> d]

----------------------------------------------------------------------------
(* The channel runtime: a bounded FIFO of (time, data) elements.  The      *)
(* sender counts the elements it believes are in the channel (delta); a    *)
(* dequeue returns the receiver's time to the sender (resp), and a sender  *)
(* that finds the channel full waits for the next such response and        *)
(* advances its clock to it.                                               *)

NewChan(cap) ==
    [cap |-> cap, q |-> <<>>, resp |-> <<>>, delta |-> 0,
     sclosed |-> FALSE, rclosed |-> FALSE,
     sent |-> <<>>, rcvd |-> <<>>]

\* peek_next / dequeue return: an element is there, or the sender is gone.
RecvOk(ch, c) == ch[c].q # <<>>
RecvReady(ch, c) == ch[c].q # <<>> \/ ch[c].sclosed

\* A receiver that reads the element without moving its clock to it.
RecvClockUnmoved(ch, c, clk) == clk

\* The receiver's clock after peek_next or dequeue on c.
RecvClock(ch, c, clk) ==
    IF RecvOk(ch, c) THEN Max(clk, Head(ch[c].q).time) ELSE clk

\* The channel after a dequeue by a receiver whose clock (advanced) is clk.
DequeueChan(ch, c, clk) ==
    IF RecvOk(ch, c)
    THEN [ch EXCEPT ![c].q = Tail(@),
                    ![c].resp = Append(@, clk),
                    ![c].rcvd = Append(@, Head(ch[c].q))]
    ELSE ch

\* wait_until_available returns: the receiver is gone, a slot is free, or a
\* response is there to free one.
SendFullOneLate(ch, c) == ch[c].delta > ch[c].cap     \* full one element late
SendFull(ch, c) == ch[c].delta >= ch[c].cap
SendReady(ch, c) == ch[c].rclosed \/ ~SendFull(ch, c) \/ ch[c].resp # <<>>
SendClosed(ch, c) == ch[c].rclosed

\* A sender that takes the time of the response as its own.
WaitClockOfResponse(ch, c, clk) ==
    IF ~SendClosed(ch, c) /\ SendFull(ch, c) THEN Head(ch[c].resp) ELSE clk

\* A sender that advances to the latest response that has arrived so far.
WaitClockOfLatest(ch, c, clk) ==
    IF ~SendClosed(ch, c) /\ SendFull(ch, c) THEN Max(clk, Last(ch[c].resp)) ELSE clk

WaitClock(ch, c, clk) ==
    IF ~SendClosed(ch, c) /\ SendFull(ch, c) THEN Max(clk, Head(ch[c].resp)) ELSE clk

WaitChan(ch, c) ==
    IF ~SendClosed(ch, c) /\ SendFull(ch, c)
    THEN [ch EXCEPT ![c].resp = Tail(@), ![c].delta = @ - 1]
    ELSE ch

\* Sender::enqueue: waits for a slot, then appends; an error (ignored by
\* some callers) when the receiver is gone.
EnqueueClock(ch, c, clk) == WaitClock(ch, c, clk)

EnqueueChan(ch, c, el) ==
    IF SendClosed(ch, c) THEN ch
    ELSE LET w == WaitChan(ch, c)
         IN [w EXCEPT ![c].q = Append(@, el),
                      ![c].delta = @ + 1,
                      ![c].sent = Append(@, el)]

\* TimeManager::incr_cycles
IncrCycles(clk, n) == clk + n

\* A block returns from run(): its endpoints are dropped.
CloseEnds(ch, s) ==
    [c \in DOMAIN ch |->
        [ch[c] EXCEPT !.sclosed = @ \/ c \in Range(s.outs),
                      !.rclosed = @ \/ c \in Range(s.ins)]]

----------------------------------------------------------------------------
(* Payloads.  The unit tests of the primitives stream integers.  The       *)
(* attention pipelines stream exact rationals <<numerator, denominator>>;  *)
(* exp is taken to base 2 on integer arguments, which keeps every value    *)
(* an exact rational.                                                      *)

RECURSIVE Gcd(_, _)
Gcd(a, b) == IF b = 0 THEN a ELSE Gcd(b, a % b)

Abs(x) == IF x < 0 THEN -x ELSE x

RECURSIVE Pow2(_)
Pow2(n) == IF n = 0 THEN 1 ELSE 2 * Pow2(n - 1)

Q(n, d) ==
    LET g == Gcd(Abs(n), Abs(d))
        sg == IF d < 0 THEN -1 ELSE 1
    IN <<(sg * n) \div g, (sg * d) \div g>>

QInt(n) == <<n, 1>>
QAdd(a, b) == Q(a[1] * b[2] + b[1] * a[2], a[2] * b[2])
QSub(a, b) == Q(a[1] * b[2] - b[1] * a[2], a[2] * b[2])
QMul(a, b) == Q(a[1] * b[1], a[2] * b[2])
QDiv(a, b) == Q(a[1] * b[2], a[2] * b[1])
QLeq(a, b) == a[1] * b[2] <= b[1] * a[2]
QLatest(a, b) == a                               \* the new score, not the maximum
QMax(a, b) == IF QLeq(a, b) THEN b ELSE a
QExp(a) == IF a[1] >= 0 THEN <<Pow2(a[1]), 1>> ELSE <<1, Pow2(-a[1])>>

\* The divider with its arguments swapped: args[1] / args[0].
MapFSwapped(f, v) ==
    CASE f = "add5" -> v[1] + 5
      [] f = "exp" -> QExp(v[1])
      [] f = "div" -> QDiv(v[2], v[1])
      [] OTHER -> v[1]

\* The closures handed to Map.
MapF(f, v) ==
    CASE f = "add5" -> v[1] + 5              \* |v| v[0] + 5
      [] f = "exp" -> QExp(v[1])             \* |qkt| qkt[0].exp()
      [] f = "div" -> QDiv(v[1], v[2])       \* |args| args[0] / args[1]
      [] OTHER -> v[1]

\* The closures handed to Reduce: (new, Option<old>) -> accumulator.
ReduceF(f, new, old) ==
    CASE f = "add" -> IF old = None THEN new ELSE new + old[1]
      [] f = "qadd" -> IF old = None THEN new ELSE QAdd(new, old[1])
      \* the residual r <- r * delta_elem + exp of the agnostic pipeline
      [] f = "residual" ->
            IF old = None THEN new.exp ELSE QAdd(QMul(old[1], new.delta_elem), new.exp)
      \* a row of V collected into a Vector
      [] f = "vecpush" -> IF old = None THEN <<new>> ELSE Append(old[1], new)
      \* the output vector out[i] <- out[i] * delta_elem + exp * v[i]; new is
      \* Pair(RunningResult, Vector)
      [] f = "vecprod" ->
            IF old = None
            THEN [i \in DOMAIN new[2] |-> QMul(new[2][i], new[1].exp)]
            ELSE [i \in DOMAIN old[1] |->
                    QAdd(QMul(old[1][i], new[1].delta_elem), QMul(new[1].exp, new[2][i]))]
      [] OTHER -> new

----------------------------------------------------------------------------
(* Blocks.  The static part of a block (net.B[b]) is what its constructor  *)
(* is given; the dynamic part (blk[b]) is its position in run(), its       *)
(* clock and its locals.                                                   *)

Block(kind, ins, outs, f, W, ii, lat, rst, data) ==
    [kind |-> kind, ins |-> ins, outs |-> outs, f |-> f, W |-> W,
     ii |-> ii, lat |-> lat, rst |-> rst, data |-> data,
     M |-> 1, N |-> 1, K |-> 1]

BlockInit ==
    [pc |-> "run", clock |-> 0, it |-> 0, acc |-> None, held |-> None,
     buf |-> <<>>, w |-> 1, m |-> 0, n |-> 0, k |-> 0]

Running(b) == blk[b].pc \notin {"done", "panic"}

Update(b, st, ch) ==
    /\ blk' = [blk EXCEPT ![b] = st]
    /\ chan' = ch
    /\ UNCHANGED <<net, ref>>

\* A block that returns while its endpoints stay alive elsewhere.
ExitKeepingEnds(b, st, ch) == Update(b, [st EXCEPT !.pc = "done"], ch)

\* return from run(): the block's receivers and senders are dropped
Exit(b, st, ch) == Update(b, [st EXCEPT !.pc = "done"], CloseEnds(ch, net.B[b]))

\* A failed enqueue or dequeue taken as the end of the run: a return.
PanicAsReturn(b, st, ch) == Exit(b, st, ch)

\* panic!: the block stops where it is; its endpoints are not released.
Panic(b, st, ch) == Update(b, [st EXCEPT !.pc = "panic"], ch)

SetMax(S) == CHOOSE x \in S : \A y \in S : y <= x

\* peek_next on every input in turn: the clock reaches the latest head.
PeekAll(ch, ins, clk) ==
    SetMax({clk} \cup {Head(ch[c].q).time : c \in {x \in Range(ins) : RecvOk(ch, x)}})

\* A collect that stops at the first Err: the inputs after it are not
\* dequeued.
DequeueUntilErr(ch, ins, clk) ==
    [c \in DOMAIN ch |->
        IF \E i \in DOMAIN ins : ins[i] = c /\ \A j \in 1..i : RecvOk(ch, ins[j])
        THEN DequeueChan(ch, c, clk)[c] ELSE ch[c]]

\* dequeue on every input in turn, at a clock that has reached every head.
DequeueAll(ch, ins, clk) ==
    [c \in DOMAIN ch |-> IF c \in Range(ins) THEN DequeueChan(ch, c, clk)[c] ELSE ch[c]]

\* A block that goes on as soon as one of its inputs has answered its peek.
AnyReady(ch, ins) == \E c \in Range(ins) : RecvReady(ch, c)

\* Block on all of the inputs: peek_next on each of them has returned.
AllReady(ch, ins) == \A c \in Range(ins) : RecvReady(ch, c)
AllOk(ch, ins) == \A c \in Range(ins) : RecvOk(ch, c)
Heads(ch, ins) == [i \in DOMAIN ins |-> Head(ch[ins[i]].q).data]

----------------------------------------------------------------------------
(* GeneratorContext and ConsumerContext of the runtime. *)

GeneratorStep(b) ==
    LET s == net.B[b]
        st == blk[b]
        c == s.outs[1]
    IN /\ b \in DOMAIN net.B
       /\ s.kind = "gen" /\ st.pc = "run"
       /\ IF st.it >= Len(s.data)
          THEN Exit(b, st, chan)
          ELSE /\ SendReady(chan, c)
               /\ IF SendClosed(chan, c)
                  THEN Panic(b, st, chan)
                  ELSE Update(b,
                          [st EXCEPT !.clock = IncrCycles(EnqueueClock(chan, c, st.clock), 1),
                                     !.it = @ + 1],
                          EnqueueChan(chan, c, Elem(st.clock + 1, s.data[st.it + 1])))

ConsumerStep(b) ==
    LET s == net.B[b]
        st == blk[b]
        c == s.ins[1]
    IN /\ b \in DOMAIN net.B
       /\ s.kind = "sink" /\ st.pc = "run"
       /\ RecvReady(chan, c)
       /\ IF ~RecvOk(chan, c)
          THEN Exit(b, st, chan)
          ELSE Update(b,
                  [st EXCEPT !.clock = IncrCycles(RecvClock(chan, c, st.clock), 1),
                             !.buf = Append(@, Head(chan[c].q))],
                  DequeueChan(chan, c, RecvClock(chan, c, st.clock)))

----------------------------------------------------------------------------
(* BroadcastSender::enqueue: wait on every target in turn, giving up at    *)
(* the first closed one; then enqueue a clone into every target, ignoring  *)
(* the result.  A block in "wait" is about to wait on target w of its      *)
(* held element; a block in "enq" has found every target available.        *)

BroadcastKinds == {"map", "scan", "repeat", "zip", "flatmap"}

\* The wait phase without the test of the wait's result.
BroadcastWaitUnchecked(b) ==
    LET s == net.B[b]
        st == blk[b]
        c == s.outs[st.w]
    IN /\ b \in DOMAIN net.B
       /\ s.kind \in BroadcastKinds /\ st.pc = "wait"
       /\ SendReady(chan, c)
       /\ Update(b,
             [st EXCEPT !.clock = WaitClock(chan, c, st.clock),
                        !.w = IF st.w = Len(s.outs) THEN 1 ELSE @ + 1,
                        !.pc = IF st.w = Len(s.outs) THEN "enq" ELSE "wait"],
             WaitChan(chan, c))

BroadcastWait(b) ==
    LET s == net.B[b]
        st == blk[b]
        c == s.outs[st.w]
    IN /\ b \in DOMAIN net.B
       /\ s.kind \in BroadcastKinds /\ st.pc = "wait"
       /\ SendReady(chan, c)
       /\ IF SendClosed(chan, c)
          THEN Panic(b, st, chan)          \* Err(Closed), unwrapped by the caller
          ELSE Update(b,
                  [st EXCEPT !.clock = WaitClock(chan, c, st.clock),
                             !.w = IF st.w = Len(s.outs) THEN 1 ELSE @ + 1,
                             !.pc = IF st.w = Len(s.outs) THEN "enq" ELSE "wait"],
                  WaitChan(chan, c))

BroadcastTargets(ch, outs, el) ==
    [c \in DOMAIN ch |-> IF c \in Range(outs) THEN EnqueueChan(ch, c, el)[c] ELSE ch[c]]

----------------------------------------------------------------------------
(* Map::run *)

MapStampNoLatency(s, clk) == clk                 \* stamped at the clock

\* time: self.time.tick() + self.timings.latency
MapStamp(s, clk) == clk + s.lat

MapUnwrap(b, st, ch) == Panic(b, st, ch)          \* v.unwrap() on the Err

\* if dequeued.iter().any(|v| v.is_err()) { return; }
MapReturn(b, st, ch) == Exit(b, st, ch)

MapRun(b) ==
    LET s == net.B[b]
        st == blk[b]
        clk == PeekAll(chan, s.ins, st.clock)
    IN /\ b \in DOMAIN net.B
       /\ s.kind = "map" /\ st.pc = "run"
       /\ AllReady(chan, s.ins)
       /\ IF ~AllOk(chan, s.ins)
          THEN MapReturn(b, [st EXCEPT !.clock = clk], DequeueAll(chan, s.ins, clk))
          ELSE Update(b,
                  [st EXCEPT !.clock = clk,
                             !.held = Some(Elem(MapStamp(s, clk), MapF(s.f, Heads(chan, s.ins)))),
                             !.pc = "wait", !.w = 1],
                  DequeueAll(chan, s.ins, clk))

\* Without self.time.incr_cycles(self.timings.initiation_interval).
MapAfterEnqueueNoInterval(s, st) == [st EXCEPT !.held = None, !.pc = "run"]

\* after output.enqueue(..).unwrap()
MapAfterEnqueue(s, st) ==
    [st EXCEPT !.clock = IncrCycles(@, s.ii), !.held = None, !.pc = "run"]

----------------------------------------------------------------------------
(* Reduce::run *)

ReduceStamp(s, clk) == clk + s.lat

ReduceWindowOfOne(s, st) == TRUE                 \* emits after every input

ReduceWindowOneMore(s, st) == st.it = s.W        \* a window of W + 1

ReduceAccumKept(acc) == acc                      \* declared outside the loop

\* let mut accum = None, at the top of every window
ReduceAccumReset(acc) == None

\* for iter in 0..self.reset_freq: the dequeue in hand is the window's last
ReduceWindowEnd(s, st) == st.it + 1 = s.W

AtAnyElement(st) == TRUE                         \* Err(_) => return
AtNoElement(st) == FALSE                         \* Err(_) => panic!

\* Err(_) if iter == 0 => return, in Reduce::run and in Scan::run
AtWindowStart(st) == st.it = 0

ReduceResetNone(s, st) == st.clock               \* reset_time left out

\* self.time.incr_cycles(self.timings.reset_time) opens every window
ReduceReset(s, st) == IF st.it = 0 THEN IncrCycles(st.clock, s.rst) ELSE st.clock

ReduceRun(b) ==
    LET s == net.B[b]
        st == blk[b]
        c == s.ins[1]
        clk0 == ReduceReset(s, st)
        clk == RecvClock(chan, c, clk0)
        acc == Some(ReduceF(s.f, Head(chan[c].q).data, st.acc))
        clk1 == IncrCycles(clk, s.ii)
    IN /\ b \in DOMAIN net.B
       /\ s.kind = "reduce" /\ st.pc = "run"
       /\ IF s.W = 0
          THEN Panic(b, [st EXCEPT !.clock = clk0], chan)    \* accum.unwrap() on None
          ELSE /\ RecvReady(chan, c)
               /\ IF ~RecvOk(chan, c)
                  THEN IF AtWindowStart(st)
                       THEN Exit(b, [st EXCEPT !.clock = clk0], chan)
                       ELSE Panic(b, st, chan)
                  ELSE Update(b,
                          IF ReduceWindowEnd(s, st)
                          THEN [st EXCEPT !.clock = clk1, !.acc = ReduceAccumReset(acc),
                                          !.it = 0,
                                          !.held = Some(Elem(ReduceStamp(s, clk1), acc[1])),
                                          !.pc = "send"]
                          ELSE [st EXCEPT !.clock = clk1, !.acc = acc, !.it = @ + 1],
                          DequeueChan(chan, c, clk))

ReduceSend(b) ==
    LET s == net.B[b]
        st == blk[b]
        c == s.outs[1]
    IN /\ b \in DOMAIN net.B
       /\ s.kind = "reduce" /\ st.pc = "send"
       /\ SendReady(chan, c)
       /\ IF SendClosed(chan, c)
          THEN Panic(b, st, chan)
          ELSE Update(b,
                  [st EXCEPT !.clock = EnqueueClock(chan, c, st.clock),
                             !.held = None, !.pc = "run"],
                  EnqueueChan(chan, c, st.held[1]))

----------------------------------------------------------------------------
(* Scan::run *)

\* The closures handed to Scan: (new, Option<&old>) -> new state.
ScanF(f, new, old) ==
    CASE f = "add" -> IF old = None THEN new ELSE new + old[1]
      [] f = "softmax" ->
            IF old = None
            THEN [cur_max |-> new, delta_max |-> new,
                  exp |-> QInt(1), delta_elem |-> QExp(new)]
            ELSE LET new_max == QMax(new, old[1].cur_max)
                     delta_max == QSub(old[1].cur_max, new_max)
                 IN [cur_max |-> new_max, delta_max |-> delta_max,
                     exp |-> QExp(QSub(new, new_max)), delta_elem |-> QExp(delta_max)]
      [] OTHER -> new

\* A stamp counted from the start of the window instead of the clock.
ScanStampInWindow(s, st, clk) == s.lat + s.ii * st.it

\* time: self.time.tick() + self.timings.latency
ScanStamp(s, st, clk) == clk + s.lat

ScanWindowOneMore(s, st) == st.it = s.W          \* a window of W + 1

ScanWindowNever(s, st) == FALSE                  \* one window, never reset

\* for iter in 0..self.reset_freq: the element in hand is the window's last
ScanWindowEnd(s, st) == st.it + 1 = s.W

ScanRun(b) ==
    LET s == net.B[b]
        st == blk[b]
        c == s.ins[1]
        clk == RecvClock(chan, c, st.clock)
    IN /\ b \in DOMAIN net.B
       /\ s.kind = "scan" /\ st.pc = "run"
       /\ IF s.W = 0
          THEN Update(b, [st EXCEPT !.pc = "spin"], chan)   \* loop {} without a dequeue
          ELSE /\ RecvReady(chan, c)
               /\ IF ~RecvOk(chan, c)
                  THEN IF AtWindowStart(st) THEN Exit(b, st, chan) ELSE Panic(b, st, chan)
                  ELSE Update(b,
                          [st EXCEPT !.clock = clk,
                                     !.held = Some(Elem(ScanStamp(s, st, clk),
                                                   ScanF(s.f, Head(chan[c].q).data, st.acc))),
                                     !.pc = "wait", !.w = 1],
                          DequeueChan(chan, c, clk))

ScanAfterEnqueue(s, st) ==
    [st EXCEPT !.clock = IncrCycles(@, s.ii),
               !.acc = IF ScanWindowEnd(s, st) THEN None ELSE Some(st.held[1].data),
               !.it = IF ScanWindowEnd(s, st) THEN 0 ELSE @ + 1,
               !.held = None, !.pc = "run"]

----------------------------------------------------------------------------
(* Repeat::run *)

RepeatStampAtClock(clk) == clk                  \* time: self.time.tick()

\* time: self.time.tick() + 1
RepeatStamp(clk) == clk + 1

RepeatRun(b) ==
    LET s == net.B[b]
        st == blk[b]
        c == s.ins[1]
        clk == RecvClock(chan, c, st.clock)
    IN /\ b \in DOMAIN net.B
       /\ s.kind = "repeat" /\ st.pc = "run"
       /\ RecvReady(chan, c)
       /\ IF ~RecvOk(chan, c)
          THEN Exit(b, st, chan)
          ELSE Update(b,
                  IF s.W = 0
                  THEN [st EXCEPT !.clock = clk]
                  ELSE [st EXCEPT !.clock = clk, !.it = 0,
                                  !.acc = Some(Head(chan[c].q).data),
                                  !.held = Some(Elem(RepeatStamp(clk), Head(chan[c].q).data)),
                                  !.pc = "wait", !.w = 1],
                  DequeueChan(chan, c, clk))

RepeatOneMore(s, st) == st.it < s.W               \* 0..=repeats

\* for _ in 0..self.repeats: another copy is due
RepeatMore(s, st) == st.it + 1 < s.W

RepeatAfterEnqueue(s, st) ==
    IF RepeatMore(s, st)
    THEN [st EXCEPT !.it = @ + 1,
                    !.held = Some(Elem(RepeatStamp(st.clock), st.acc[1])),
                    !.pc = "wait", !.w = 1]
    ELSE [st EXCEPT !.it = 0, !.acc = None, !.held = None, !.pc = "run"]

----------------------------------------------------------------------------
(* Zip::run *)

ZipStampAtClock(clk) == clk                     \* time: self.time.tick()

\* time: self.time.tick() + 1
ZipStamp(clk) == clk + 1

ZipEitherEnded(ch, l, r) == ~RecvOk(ch, l) \/ ~RecvOk(ch, r)    \* (Err(_), _) | (_, Err(_))

\* (Err(_), Err(_)) => return
ZipBothEnded(ch, l, r) == ~RecvOk(ch, l) /\ ~RecvOk(ch, r)

ZipRun(b) ==
    LET s == net.B[b]
        st == blk[b]
        l == s.ins[1]
        r == s.ins[2]
        clk == PeekAll(chan, s.ins, st.clock)
    IN /\ b \in DOMAIN net.B
       /\ s.kind = "zip" /\ st.pc = "run"
       /\ AllReady(chan, s.ins)
       /\ IF RecvOk(chan, l) /\ RecvOk(chan, r)
          THEN Update(b,
                  [st EXCEPT !.clock = clk,
                             !.held = Some(Elem(ZipStamp(clk),
                                           <<Head(chan[l].q).data, Head(chan[r].q).data>>)),
                             !.pc = "wait", !.w = 1],
                  DequeueAll(chan, s.ins, clk))
          ELSE IF ZipBothEnded(chan, l, r)
               THEN Exit(b, st, chan)
               ELSE Panic(b, [st EXCEPT !.clock = clk], DequeueAll(chan, s.ins, clk))

ZipAfterEnqueue(s, st) == [st EXCEPT !.held = None, !.pc = "run"]

----------------------------------------------------------------------------
(* Flatmap::run *)

\* 0..=v[0] in place of 0..v[0]
FlatmapFInclusive(f, v) == [i \in 1..(v[1] + 1) |-> i - 1]

\* The closures handed to Flatmap: inputs -> the outputs, in order.
FlatmapF(f, v) ==
    CASE f = "range" -> [i \in 1..v[1] |-> i - 1]                  \* |v| (0..v[0])
      \* Pair(vector, scale) -> vector / scale
      [] f = "scale" -> [i \in 1..Len(v[1][1]) |-> QDiv(v[1][1][i], v[1][2])]
      [] OTHER -> <<>>

FlatmapStamp(s, clk) == clk + s.lat

FlatmapRun(b) ==
    LET s == net.B[b]
        st == blk[b]
        clk == PeekAll(chan, s.ins, st.clock)
        outputs == FlatmapF(s.f, Heads(chan, s.ins))
    IN /\ b \in DOMAIN net.B
       /\ s.kind = "flatmap" /\ st.pc = "run"
       /\ AllReady(chan, s.ins)
       /\ IF ~AllOk(chan, s.ins)
          THEN Exit(b, [st EXCEPT !.clock = clk], DequeueAll(chan, s.ins, clk))
          ELSE Update(b,
                  IF outputs = <<>>
                  THEN [st EXCEPT !.clock = clk]
                  ELSE [st EXCEPT !.clock = clk, !.buf = outputs, !.it = 1,
                                  !.held = Some(Elem(FlatmapStamp(s, clk), outputs[1])),
                                  !.pc = "wait", !.w = 1],
                  DequeueAll(chan, s.ins, clk))

FlatmapAfterEnqueue(s, st) ==
    LET clk == IncrCycles(st.clock, s.ii)
    IN IF st.it < Len(st.buf)
       THEN [st EXCEPT !.clock = clk, !.it = @ + 1,
                       !.held = Some(Elem(FlatmapStamp(s, clk), st.buf[st.it + 1])),
                       !.pc = "wait", !.w = 1]
       ELSE [st EXCEPT !.clock = clk, !.it = 0, !.buf = <<>>, !.held = None, !.pc = "run"]

----------------------------------------------------------------------------
(* The second phase of BroadcastSender::enqueue, and the caller's code     *)
(* after it returned Ok.                                                   *)

AfterEnqueue(s, st) ==
    CASE s.kind = "map" -> MapAfterEnqueue(s, st)
      [] s.kind = "scan" -> ScanAfterEnqueue(s, st)
      [] s.kind = "repeat" -> RepeatAfterEnqueue(s, st)
      [] s.kind = "zip" -> ZipAfterEnqueue(s, st)
      [] s.kind = "flatmap" -> FlatmapAfterEnqueue(s, st)

BroadcastEnqueue(b) ==
    LET s == net.B[b]
        st == blk[b]
    IN /\ b \in DOMAIN net.B
       /\ s.kind \in BroadcastKinds /\ st.pc = "enq"
       /\ \A c \in Range(s.outs) : SendReady(chan, c)
       /\ Update(b, AfterEnqueue(s, st), BroadcastTargets(chan, s.outs, st.held[1]))

----------------------------------------------------------------------------
(* Matmul: A [M, K] x B [K, N] = C [M, N], one output per (m, n). *)

MatmulBlock(kind, left, right, out, f, M, N, K, ii, lat, rst) ==
    [Block(kind, <<left, right>>, <<out>>, f, 0, ii, lat, rst, <<>>)
        EXCEPT !.M = M, !.N = N, !.K = K]

\* The closure handed to Matmul, |a, b, c| a * b + c, and OutputT::zero().
MacF(f, a, b, c) == IF f = "qmac" THEN QAdd(QMul(a, b), c) ELSE a * b + c
MacZero(f) == IF f = "qmac" THEN QInt(0) ELSE 0

MatmulAccum(s, st) == IF st.acc = None THEN MacZero(s.f) ELSE st.acc[1]

MatmulStamp(s, clk) == clk + s.lat

AtBatchStartFromOne(st) == st.m = 1 /\ st.n = 0 /\ st.k = 0    \* indices from 1

\* m == 0 && n == 0 && k == 0
AtBatchStart(st) == st.m = 0 /\ st.n = 0 /\ st.k = 0

\* The accumulator declared outside the n loop: carried into the next output.
MatmulMacCarried(s, st, clk, a, b) ==
    LET accum == MacF(s.f, a, b, MatmulAccum(s, st))
        clk1 == IncrCycles(clk, s.ii)
    IN IF st.k + 1 = s.K
       THEN [st EXCEPT !.clock = clk1, !.k = 0, !.acc = Some(accum),
                       !.held = Some(Elem(MatmulStamp(s, clk1), accum)),
                       !.pc = "send"]
       ELSE [st EXCEPT !.clock = clk1, !.k = @ + 1, !.acc = Some(accum), !.pc = "run"]

\* One MAC of either behaviour, the k loop advanced, the accumulator held
\* for the output after K of them.
MatmulMac(s, st, clk, a, b) ==
    LET accum == MacF(s.f, a, b, MatmulAccum(s, st))
        clk1 == IncrCycles(clk, s.ii)
    IN IF st.k + 1 = s.K
       THEN [st EXCEPT !.clock = clk1, !.k = 0, !.acc = None,
                       !.held = Some(Elem(MatmulStamp(s, clk1), accum)),
                       !.pc = "send"]
       ELSE [st EXCEPT !.clock = clk1, !.k = @ + 1, !.acc = Some(accum), !.pc = "run"]

\* buffered_matmul: right.peek_next, then either the left dequeue (n = 0)
\* or the right dequeue and the MAC with left_buffer[k].
BufferedPeek(b) ==
    LET s == net.B[b]
        st == blk[b]
        r == s.ins[2]
        clk == RecvClock(chan, r, st.clock)
    IN /\ b \in DOMAIN net.B
       /\ s.kind = "mmbuf" /\ st.pc = "run"
       /\ IF s.M = 0 \/ s.N = 0
          THEN Update(b, [st EXCEPT !.pc = "spin"], chan)
          ELSE /\ RecvReady(chan, r)
               /\ IF ~RecvOk(chan, r)
                  THEN IF AtBatchStart(st) THEN Exit(b, st, chan) ELSE Panic(b, st, chan)
                  ELSE IF st.n = 0
                       THEN Update(b, [st EXCEPT !.clock = clk, !.pc = "left"], chan)
                       ELSE Update(b,
                               MatmulMac(s, st, clk, st.buf[st.k + 1], Head(chan[r].q).data),
                               DequeueChan(chan, r, clk))

BufferedLeft(b) ==
    LET s == net.B[b]
        st == blk[b]
        l == s.ins[1]
        r == s.ins[2]
        clk == RecvClock(chan, l, st.clock)
        buf == Append(st.buf, Head(chan[l].q).data)
    IN /\ b \in DOMAIN net.B
       /\ s.kind = "mmbuf" /\ st.pc = "left"
       /\ RecvReady(chan, l)
       /\ IF ~RecvOk(chan, l)
          THEN IF AtBatchStart(st) THEN Exit(b, st, chan) ELSE Panic(b, st, chan)
          ELSE Update(b,
                  MatmulMac(s, [st EXCEPT !.buf = buf], clk,
                            buf[st.k + 1], Head(chan[r].q).data),
                  DequeueAll(chan, s.ins, clk))

\* repeated_matmul: both streams are peeked and dequeued for every MAC.
RepeatedRun(b) ==
    LET s == net.B[b]
        st == blk[b]
        l == s.ins[1]
        r == s.ins[2]
        \* incr_cycles(reset_time) opens every row of A
        clk0 == IF st.n = 0 /\ st.k = 0 THEN IncrCycles(st.clock, s.rst) ELSE st.clock
        clk == PeekAll(chan, s.ins, clk0)
    IN /\ b \in DOMAIN net.B
       /\ s.kind = "mmrep" /\ st.pc = "run"
       /\ IF s.M = 0 \/ s.N = 0
          THEN Update(b, [st EXCEPT !.pc = "spin"], chan)
          ELSE /\ AllReady(chan, s.ins)
               /\ IF AllOk(chan, s.ins)
                  THEN Update(b,
                          MatmulMac(s, st, clk, Head(chan[l].q).data, Head(chan[r].q).data),
                          DequeueAll(chan, s.ins, clk))
                  ELSE IF AtBatchStart(st)
                       THEN Exit(b, [st EXCEPT !.clock = clk], DequeueAll(chan, s.ins, clk))
                       ELSE Panic(b, [st EXCEPT !.clock = clk], DequeueAll(chan, s.ins, clk))

LeftBufferKept(buf) == buf                       \* the buffer is never reset

\* left_buffer.clear()
LeftBufferClear(buf) == <<>>

\* output.enqueue of the accumulator, and the n and m loops advanced.
MatmulSend(b) ==
    LET s == net.B[b]
        st == blk[b]
        c == s.outs[1]
        rowDone == st.n + 1 = s.N
    IN /\ b \in DOMAIN net.B
       /\ s.kind \in {"mmbuf", "mmrep"} /\ st.pc = "send"
       /\ SendReady(chan, c)
       /\ IF SendClosed(chan, c)
          THEN Panic(b, st, chan)
          ELSE Update(b,
                  [st EXCEPT !.clock = EnqueueClock(chan, c, st.clock),
                             !.held = None, !.pc = "run",
                             !.n = IF rowDone THEN 0 ELSE @ + 1,
                             !.m = IF rowDone THEN (IF st.m + 1 = s.M THEN 0 ELSE @ + 1) ELSE @,
                             !.buf = IF rowDone THEN LeftBufferClear(@) ELSE @],
                  EnqueueChan(chan, c, st.held[1]))

----------------------------------------------------------------------------
(* Graphs.  A graph is its blocks (B), the capacities of its channels (C)  *)
(* and the name of its shape (variant).                                    *)

Graph(variant, B, C, par) == [variant |-> variant, B |-> B, C |-> C, par |-> par]

\* What a graph was built for: the shape (N, D), the number of batches and
\* the capacity of the long channel (attention pipelines), the lengths of
\* the generated streams (unit tests).
Params(N, D, nb, long, len1, len2) ==
    [N |-> N, D |-> D, nb |-> nb, long |-> long, len1 |-> len1, len2 |-> len2]

Generator(out, data) == Block("gen", <<>>, <<out>>, "", 0, 0, 0, 0, data)
Consumer(in) == Block("sink", <<in>>, <<>>, "", 0, 0, 0, 0, <<>>)

\* The input of the unit tests: the integers 0 .. len-1.
Iota(len) == [i \in 1..len |-> i - 1]

\* Latencies, initiation intervals and reset times: none, the default of
\* the command line, and the initiation interval of the unit tests.
Timings == {0, 1, 2}
Depths == 1..MaxDepth
Windows == 1..MaxW
Lengths == 0..MaxLen

\* The graph of a primitive's unit test: generators, the block, a sink.
\* Channel 1 and 2 feed the block (2 only when it has two inputs), channel 3
\* leaves it.
OneInput(variant, blockUnderTest, len, depth) ==
    Graph(variant,
          <<Generator(1, Iota(len)), blockUnderTest, Consumer(3)>>,
          [c \in {1, 3} |-> depth],
          Params(0, 0, 0, 0, len, 0))

TwoInputs(variant, blockUnderTest, len1, len2, depth) ==
    Graph(variant,
          <<Generator(1, Iota(len1)), Generator(2, Iota(len2)), blockUnderTest, Consumer(3)>>,
          [c \in {1, 2, 3} |-> depth],
          Params(0, 0, 0, 0, len1, len2))

\* Shapes (M, N, K) of the Matmul under test.
MatmulShapes == {<<2, 2, 1>>, <<1, 2, 2>>, <<2, 1, 2>>}

\* The streams run_test feeds a Matmul for nb batches: A once (Buffered) or
\* each row of A N times (Repeated) on the left, B transposed M times on the
\* right.
MatmulLeftLen(kind, shape, nb) ==
    IF kind = "mmbuf" THEN nb * shape[1] * shape[3]
    ELSE nb * shape[1] * shape[2] * shape[3]
MatmulRightLen(shape, nb) == nb * shape[1] * shape[2] * shape[3]

PrimGraphs ==
    UNION {
      {OneInput("map", Block("map", <<1>>, <<3>>, "add5", 0, ii, lat, 0, <<>>), len, d)
          : ii \in Timings, lat \in Timings, len \in Lengths, d \in Depths},
      {OneInput("reduce", Block("reduce", <<1>>, <<3>>, "add", W, ii, lat, rst, <<>>), len, d)
          : W \in Windows, ii \in Timings, lat \in Timings, rst \in Timings,
            len \in Lengths, d \in Depths},
      {OneInput("scan", Block("scan", <<1>>, <<3>>, "add", W, ii, lat, 0, <<>>), len, d)
          : W \in Windows, ii \in Timings, lat \in Timings, len \in Lengths, d \in Depths},
      {OneInput("repeat", Block("repeat", <<1>>, <<3>>, "", W, 0, 0, 0, <<>>), len, d)
          : W \in Windows, len \in Lengths, d \in Depths},
      {OneInput("flatmap", Block("flatmap", <<1>>, <<3>>, "range", 0, ii, lat, 0, <<>>), len, d)
          : ii \in Timings, lat \in Timings, len \in Lengths, d \in Depths},
      {TwoInputs("zip", Block("zip", <<1, 2>>, <<3>>, "", 0, 0, 0, 0, <<>>), len1, len2, d)
          : len1 \in Lengths, len2 \in Lengths, d \in Depths},
      {TwoInputs(kind, MatmulBlock(kind, 1, 2, 3, "mac", shape[1], shape[2], shape[3],
                                   ii, lat, rst),
                 MatmulLeftLen(kind, shape, nb), MatmulRightLen(shape, nb), d)
          : kind \in {"mmbuf", "mmrep"}, shape \in MatmulShapes, nb \in {0, 1},
            ii \in Timings, lat \in Timings, rst \in Timings, d \in Depths}
    }

----------------------------------------------------------------------------
(* The attention pipelines.  naive() and agnostic_attention() are handed   *)
(* the receivers of the scores (qkt) and of V: here generators feed them,  *)
(* in the layout of the driver: the scores row by row, V once per query    *)
(* row, transposed for the naive pipeline and row-major for the agnostic   *)
(* one.  Driver (below) puts the Matmul that computes the scores from Q    *)
(* and K in front, as main() does.                                         *)

\* The matrices streamed: scores S[i][j] and values V[j][d], 0-based.
Score(i, j) == QInt((i + 2 * j) % 3)
Value(j, d) == QInt(1 + ((j + 2 * d) % 3))

QktStream(N, nb) ==
    [x \in 1..(nb * N * N) |-> Score(((x - 1) \div N) % N, (x - 1) % N)]

\* v.t() row-major without the outer (0..SEQ_LEN).flat_map: V once
VStreamNaiveOnce(N, D, nb) ==
    [x \in 1..(nb * N * D) |-> Value((x - 1) % N, ((x - 1) \div N) % D)]

\* naive: v.t() row-major, i.e. for each d the column V[.][d]; N times
VStreamNaive(N, D, nb) ==
    [x \in 1..(nb * N * N * D) |-> Value((x - 1) % N, ((x - 1) \div N) % D)]

\* agnostic: v row-major, i.e. for each j the row V[j][.]; N times
VStreamAgnostic(N, D, nb) ==
    [x \in 1..(nb * N * N * D) |-> Value(((x - 1) \div D) % N, (x - 1) % D)]

\* The long buffer put between exp and the sum instead.
NaiveDepthsOnSum(short, long) == [c \in 1..8 |-> IF c = 4 THEN long ELSE short]

\* every channel is bounded(chan_size_short) but exp_to_div, which is
\* bounded(chan_size_long)
NaiveDepths(short, long) == [c \in 1..8 |-> IF c = 3 THEN long ELSE short]

\* naive(): channels 1 qkt, 2 v, 3 exp_to_div (long), 4 exp_to_sum,
\* 5 sum_to_rep, 6 rep_to_div, 7 div_to_mm, 8 output.
Naive(N, D, nb, short, long, t) ==
    Graph("naive",
          << Generator(1, QktStream(N, nb)),
             Generator(2, VStreamNaive(N, D, nb)),
             Block("map", <<1>>, <<3, 4>>, "exp", 0, t.exp[1], t.exp[2], 0, <<>>),
             Block("reduce", <<4>>, <<5>>, "qadd", N, t.sum[1], t.sum[2], t.rst, <<>>),
             Block("repeat", <<5>>, <<6>>, "", N, 0, 0, 0, <<>>),
             Block("map", <<3, 6>>, <<7>>, "div", 0, t.div[1], t.div[2], 0, <<>>),
             MatmulBlock("mmbuf", 7, 2, 8, "qmac", N, D, N, t.mm[1], t.mm[2], t.rst),
             Consumer(8) >>,
          NaiveDepths(short, long),
          Params(N, D, nb, long, nb * N * N, nb * N * N * D))

\* agnostic_attention(): channels 1 qkt, 2 v, 3 scan_to_residual,
\* 4 scan_to_mul, 5 r_to_div_rep, 6 reduce_to_div, 7 v_vec, 8 mul_in,
\* 9 output, 10 reduce (zip to flatmap).  The stages are timed by exp (the
\* scan), sum (the residual), mm (the vector product) and div (the scaling).
Agnostic(N, D, nb, depth, t) ==
    Graph("agnostic",
          << Generator(1, QktStream(N, nb)),
             Generator(2, VStreamAgnostic(N, D, nb)),
             Block("scan", <<1>>, <<3, 4>>, "softmax", N, t.exp[1], t.exp[2], 0, <<>>),
             Block("reduce", <<3>>, <<5>>, "residual", N, t.sum[1], t.sum[2], t.rst, <<>>),
             Block("reduce", <<2>>, <<7>>, "vecpush", D, 1, 1, 0, <<>>),
             Block("zip", <<4, 7>>, <<8>>, "", 0, 0, 0, 0, <<>>),
             Block("reduce", <<8>>, <<6>>, "vecprod", N, t.mm[1], t.mm[2], t.rst, <<>>),
             Block("zip", <<6, 5>>, <<10>>, "", 0, 0, 0, 0, <<>>),
             Block("flatmap", <<10>>, <<9>>, "scale", 0, t.div[1], t.div[2], 0, <<>>),
             Consumer(9) >>,
          [c \in 1..10 |-> depth],
          Params(N, D, nb, depth, nb * N * N, nb * N * N * D))

\* The matrices multiplied into the scores by the driver: Q[i][d], K[j][d].
QElem(i, d) == QInt((i + d) % 2)
KElem(j, d) == QInt((j + 2 * d + 1) % 2)

\* Q row-major, once; K row-major, once for every row of Q
QStream(N, D, nb) ==
    [x \in 1..(nb * N * D) |-> QElem(((x - 1) \div D) % N, (x - 1) % D)]
KStream(N, D, nb) ==
    [x \in 1..(nb * N * N * D) |-> KElem(((x - 1) \div D) % N, (x - 1) % D)]

\* main(): the scores are themselves computed in the graph, by a Buffered
\* Matmul [N, D] x [D, N] of Q and K which takes the place of the generator
\* of qkt (block 1); the generators of Q and K and their channels come
\* after the blocks and channels of the pipeline.
Driver(g, depth, t) ==
    LET nC == Cardinality(DOMAIN g.C)
        N == g.par.N
        D == g.par.D
    IN [g EXCEPT
          !.B = <<MatmulBlock("mmbuf", nC + 1, nC + 2, 1, "qmac", N, N, D,
                              t.mm[1], t.mm[2], t.rst)>>
                \o Tail(g.B)
                \o <<Generator(nC + 1, QStream(N, D, g.par.nb)),
                     Generator(nC + 2, KStream(N, D, g.par.nb))>>,
          !.C = [c \in 1..(nC + 2) |-> IF c <= nC THEN g.C[c] ELSE depth]]

\* The defaults of the command line: every ii and latency 1, reset_time 0.
Ones == [exp |-> <<1, 1>>, sum |-> <<1, 1>>, div |-> <<1, 1>>, mm |-> <<1, 1>>, rst |-> 0]

\* Other timings: one stage slow at a time, a reset time, nothing timed.
OtherTimings ==
    { [Ones EXCEPT !.exp = <<2, 2>>], [Ones EXCEPT !.sum = <<2, 0>>],
      [Ones EXCEPT !.div = <<0, 2>>], [Ones EXCEPT !.mm = <<2, 1>>],
      [Ones EXCEPT !.rst = 2],
      [exp |-> <<0, 0>>, sum |-> <<0, 0>>, div |-> <<0, 0>>, mm |-> <<0, 0>>, rst |-> 0] }

\* Shapes (N, D, batches) of the attention runs.
PipeShapes == {<<1, 1, 1>>, <<1, 2, 1>>, <<2, 2, 1>>, <<1, 1, 2>>}

\* The long buffer is taken shorter than a row, and a row or more.
NaiveGraphs ==
    {Naive(sh[1], sh[2], sh[3], short, long, Ones)
        : sh \in PipeShapes, short \in Depths, long \in Depths}

\* The agnostic graph has ten blocks: rows of more than one score are run
\* at depth 1 only.
AgnosticGraphs ==
    {Agnostic(sh[1], sh[2], sh[3], depth, Ones)
        : sh \in {x \in PipeShapes : x[1] = 1}, depth \in Depths}
    \cup {Agnostic(sh[1], sh[2], sh[3], 1, Ones) : sh \in PipeShapes}

TimedGraphs ==
    {Naive(2, 2, 1, 1, 2, t) : t \in OtherTimings}
    \cup {Agnostic(1, 2, 1, 1, t) : t \in OtherTimings}

\* Runs of the whole driver.
NaiveDriverGraphs ==
    {Driver(Naive(2, 2, 1, 1, 2, Ones), 1, Ones),
     Driver(Naive(1, 1, 2, 1, 1, Ones), 1, Ones)}

DriverGraphs == NaiveDriverGraphs \cup {Driver(Agnostic(1, 2, 1, 1, Ones), 1, Ones)}

PipeGraphs == NaiveGraphs \cup AgnosticGraphs \cup DriverGraphs

Start(g) ==
    /\ net = g
    /\ chan = [c \in DOMAIN g.C |-> NewChan(g.C[c])]
    /\ blk = [b \in DOMAIN g.B |-> BlockInit]
    /\ ref = None

InitPrim == \E g \in PrimGraphs : Start(g)
InitPipe == \E g \in PipeGraphs : Start(g)

\* Block ids: no graph has more than twelve blocks.
BlockIds == 1..12

PipeStep(b) ==
    \/ GeneratorStep(b)
    \/ ConsumerStep(b)
    \/ BroadcastWait(b)
    \/ BroadcastEnqueue(b)
    \/ MapRun(b)
    \/ ReduceRun(b)
    \/ ReduceSend(b)
    \/ ScanRun(b)
    \/ RepeatRun(b)
    \/ ZipRun(b)
    \/ FlatmapRun(b)
    \/ BufferedPeek(b)
    \/ BufferedLeft(b)
    \/ MatmulSend(b)

Next == \E b \in BlockIds : PipeStep(b) \/ RepeatedRun(b)

NextPipe == \E b \in BlockIds : PipeStep(b)

\* Every graph: the unit tests of the primitives and the attention runs.
Spec == (InitPrim \/ InitPipe) /\ [][Next]_vars

\* The attention runs, and the same under a scheduler that keeps running
\* some block as long as one can step.
SpecPipe == InitPipe /\ [][NextPipe]_vars
FairPipe == SpecPipe /\ WF_vars(NextPipe)

\* The naive runs alone.
InitNaive == \E g \in NaiveGraphs \cup NaiveDriverGraphs : Start(g)

NextNaive ==
    \E b \in BlockIds :
        \/ GeneratorStep(b)
        \/ ConsumerStep(b)
        \/ BroadcastWait(b)
        \/ BroadcastEnqueue(b)
        \/ MapRun(b)
        \/ ReduceRun(b)
        \/ ReduceSend(b)
        \/ RepeatRun(b)
        \/ BufferedPeek(b)
        \/ BufferedLeft(b)
        \/ MatmulSend(b)

FairNaive == InitNaive /\ [][NextNaive]_vars /\ WF_vars(NextNaive)

----------------------------------------------------------------------------
(* Properties of every graph *)

Blocks == DOMAIN net.B
Chans == DOMAIN net.C

NonDecreasing(els) == \A i \in 1..(Len(els) - 1) : els[i].time <= els[i + 1].time

\* C1: on every channel the timestamps of the elements enqueued, in the
\* order of their enqueue, never decrease (every latency, initiation
\* interval and reset time is >= 0, every depth >= 1).
MonotoneStamps == \A c \in Chans : NonDecreasing(chan[c].sent)

\* A Map or a Reduce has sent three elements, the third stamped later than
\* the first.
MonotoneStampsSeen ==
    \E b \in Blocks :
        /\ net.B[b].kind \in {"map", "reduce"}
        /\ \E c \in Range(net.B[b].outs) :
              /\ Len(chan[c].sent) >= 3
              /\ chan[c].sent[1].time < chan[c].sent[3].time

\* C2: a channel delivers its elements in the order of their enqueue, none
\* lost or repeated (what was sent is what was received followed by what is
\* buffered), and a block that has dequeued an element has a clock of at
\* least that element's timestamp.
FifoAndClock ==
    /\ \A c \in Chans : chan[c].sent = chan[c].rcvd \o chan[c].q
    /\ \A b \in Blocks : \A c \in Range(net.B[b].ins) :
          chan[c].rcvd # <<>> => blk[b].clock >= Last(chan[c].rcvd).time

\* A Zip has dequeued two pairs, the second while its clock was behind.
FifoAndClockSeen ==
    /\ net.variant = "zip"
    /\ Len(chan[1].rcvd) >= 2 /\ Len(chan[2].rcvd) >= 2
    /\ chan[1].q # <<>>
    /\ blk[3].clock = Last(chan[1].rcvd).time

\* C7: in every state a channel buffers at most its capacity.
WithinCapacity == \A c \in Chans : Len(chan[c].q) <= chan[c].cap

\* A two-target broadcast has filled both of its channels, one of them
\* deeper than one element.
WithinCapacitySeen ==
    \E b \in Blocks :
        /\ Len(net.B[b].outs) = 2
        /\ \A c \in Range(net.B[b].outs) : Len(chan[c].q) = chan[c].cap
        /\ \E c \in Range(net.B[b].outs) : chan[c].cap >= 2

\* C8: no step of any block, a dequeue or a wait for a slot included,
\* takes a local clock backwards.
ClocksAdvance == [][\A b \in Blocks : blk'[b].clock >= blk[b].clock]_vars

\* A sender has waited for a slot and a receiver has dequeued, and both
\* clocks have moved.
ClocksAdvanceSeen ==
    \E c \in Chans :
        /\ chan[c].delta < Len(chan[c].sent)
        /\ chan[c].rcvd # <<>>
        /\ \A b \in Blocks :
              (c \in Range(net.B[b].ins) \/ c \in Range(net.B[b].outs)) => blk[b].clock > 0

----------------------------------------------------------------------------
(* Properties of the attention runs *)

AllExited == \A b \in Blocks : blk[b].pc = "done"

Sink == CHOOSE b \in Blocks : net.B[b].kind = "sink"
Generators == {b \in Blocks : net.B[b].kind = "gen"}

\* The long buffer holds a row: long_depth >= length.
WellSized == net.variant = "naive" => net.par.long >= net.par.N

Stuck == (\E b \in Blocks : blk[b].pc # "done") /\ ~ENABLED NextNaive

Outputs == blk[Sink].buf

\* C3: fed whole batches in the driver's layout, with N >= 1, D >= 1, every
\* short depth >= 1 and the naive long buffer at least N deep, every block
\* of either pipeline eventually exits (none panics), and the sink has then
\* received batches * N * D elements.
NoPanic == \A b \in Blocks : blk[b].pc # "panic"

Terminates ==
    WellSized =>
        <>(AllExited /\ NoPanic /\ Len(Outputs) = net.par.nb * net.par.N * net.par.D)

\* A naive run of a 2 x 2 attention with a long buffer of exactly N is over.
TerminatesSeen ==
    /\ net.variant = "naive" /\ net.par.N = 2 /\ net.par.D = 2 /\ net.par.long = 2
    /\ AllExited /\ Len(Outputs) = 4

\* C4: the naive pipeline with a long buffer shorter than a row reaches a
\* state where no block can step and not every block has exited, whatever
\* the short depth; with a long buffer of at least N no such state is
\* reachable.  (The driver starts the run either way: both are initial
\* states.)
LongBufferNeedsRow ==
    /\ (net.variant = "naive" /\ net.par.long < net.par.N) => <>Stuck
    /\ (net.variant = "naive" /\ net.par.long >= net.par.N) => []~Stuck

\* A naive run with a long buffer of 1 for rows of 2 and short channels of
\* depth 2 is stuck: exp waits for a slot in the long buffer, the divider
\* for a sum.
LongBufferNeedsRowSeen ==
    /\ net.variant = "naive" /\ net.par.N = 2 /\ net.par.long = 1
    /\ net.C[1] = 2
    /\ Stuck
    /\ blk[3].pc = "wait" /\ Len(chan[3].q) = 1

GeneratorsDone == \A b \in Generators : blk[b].pc = "done"

AllClosed == \A c \in Chans : chan[c].sclosed /\ chan[c].q = <<>>

Drained(c) == chan[c].sclosed /\ chan[c].q = <<>>

ExitsAfterUpstream ==
    \A b \in Blocks :
        blk[b].pc = "done" =>
            IF net.B[b].kind = "mmbuf"
            THEN Drained(net.B[b].ins[2])
            ELSE \A c \in Range(net.B[b].ins) : Drained(c)

----------------------------------------------------------------------------
(* elapsed_cycles: the same graph run twice *)

SetOfClocks == {blk[b].clock : b \in Blocks}

\* the maximum local clock over all blocks
Elapsed == SetMax(SetOfClocks)

\* The run is over; its elapsed_cycles is kept and the graph is run again.
Rerun ==
    /\ AllExited /\ ref = None
    /\ ref' = Some(Elapsed)
    /\ chan' = [c \in Chans |-> NewChan(net.C[c])]
    /\ blk' = [b \in Blocks |-> BlockInit]
    /\ UNCHANGED net

TwiceGraphs ==
    TimedGraphs
    \cup {Naive(2, 2, 1, short, 2, Ones) : short \in Depths}
    \cup {Agnostic(2, 1, 1, 1, Ones), Driver(Naive(1, 2, 1, 1, 1, Ones), 1, Ones)}

InitTwice == \E g \in TwiceGraphs : Start(g)

NextTwice == NextPipe \/ Rerun

SpecTwice == InitTwice /\ [][NextTwice]_vars

\* C6: whatever the interleaving of the steps of the blocks, two runs of a
\* configuration that terminate end with the same elapsed_cycles.
SameElapsed == (AllExited /\ ref # None) => Elapsed = ref[1]

\* A second agnostic run is over, with the elapsed_cycles of the first.
SameElapsedSeen ==
    /\ net.variant = "agnostic"
    /\ AllExited /\ ref # None /\ Elapsed = ref[1] /\ Elapsed > 0

----------------------------------------------------------------------------
(* Reduce and Scan with addition, on every short stream *)

Values == {1, 2}

Streams == UNION {[1..len -> Values] : len \in Lengths}

\* reduce_test and scan_test, with the stream, the window and the depth
\* left open.
FunGraphs ==
    {Graph("reduce",
           <<Generator(1, data),
             Block("reduce", <<1>>, <<3>>, "add", W, 2, 1, 0, <<>>), Consumer(3)>>,
           [c \in {1, 3} |-> d], Params(0, 0, 0, 0, Len(data), 0))
        : data \in Streams, W \in Windows, d \in Depths}
    \cup
    {Graph("scan",
           <<Generator(1, data),
             Block("scan", <<1>>, <<3>>, "add", W, 2, 1, 0, <<>>), Consumer(3)>>,
           [c \in {1, 3} |-> d], Params(0, 0, 0, 0, Len(data), 0))
        : data \in Streams, W \in Windows, d \in Depths}

InitFun == \E g \in FunGraphs : Start(g)

NextFun ==
    \E b \in BlockIds :
        \/ GeneratorStep(b)
        \/ ConsumerStep(b)
        \/ ReduceRun(b)
        \/ ReduceSend(b)
        \/ ScanRun(b)
        \/ BroadcastWait(b)
        \/ BroadcastEnqueue(b)

SpecFun == InitFun /\ [][NextFun]_vars

RECURSIVE SumFromTo(_, _, _)
SumFromTo(data, a, b) == IF a > b THEN 0 ELSE data[a] + SumFromTo(data, a + 1, b)

\* The sums of the whole windows of a stream, and the prefix sums within
\* its windows.
WindowSums(data, W) ==
    [j \in 1..(Len(data) \div W) |-> SumFromTo(data, (j - 1) * W + 1, j * W)]
WindowPrefixSums(data, W) ==
    [i \in 1..Len(data) |-> SumFromTo(data, ((i - 1) \div W) * W + 1, i)]

Data(els) == [i \in DOMAIN els |-> els[i].data]

IsPrefix(a, b) == Len(a) <= Len(b) /\ a = SubSeq(b, 1, Len(a))

\* C9: a Reduce with addition over windows of W >= 1 emits the sums of the
\* whole windows of its input, in order, and nothing else: floor(len / W)
\* outputs once it has stopped.
ReduceSums ==
    net.variant = "reduce" =>
        LET sums == WindowSums(net.B[1].data, net.B[2].W)
        IN /\ IsPrefix(Data(chan[3].sent), sums)
           /\ ~Running(2) => Data(chan[3].sent) = sums
           /\ blk[3].pc = "done" => Data(blk[3].buf) = sums

\* A Reduce over windows of 2 has stopped after two windows of different
\* sums, and the sink has both.
ReduceSumsSeen ==
    /\ net.variant = "reduce" /\ net.B[2].W = 2
    /\ blk[2].pc = "done" /\ blk[3].pc = "done"
    /\ Len(blk[3].buf) = 2 /\ blk[3].buf[1].data # blk[3].buf[2].data

\* C10: a Scan with addition over windows of W emits one output for each
\* input, in order, the prefix sum of the input's window up to it; its
\* accumulator is absent when it takes the first element of a window.
ScanPrefixSums ==
    net.variant = "scan" =>
        LET sums == WindowPrefixSums(net.B[1].data, net.B[2].W)
        IN /\ IsPrefix(Data(chan[3].sent), sums)
           /\ ~Running(2) => Data(chan[3].sent) = sums
           /\ blk[3].pc = "done" => Data(blk[3].buf) = sums
           /\ (blk[2].pc = "run" /\ blk[2].it = 0) => blk[2].acc = None

\* A Scan over windows of 2 has emitted two windows and stopped, its
\* accumulator absent, and the sink has the four prefix sums.
ScanPrefixSumsSeen ==
    /\ net.variant = "scan" /\ net.B[2].W = 2
    /\ blk[2].pc = "done" /\ blk[2].acc = None /\ blk[3].pc = "done"
    /\ Len(blk[3].buf) = 4 /\ blk[3].buf[3].data < blk[3].buf[2].data

----------------------------------------------------------------------------
(* Map and Flatmap under test: test_map and test_flatmap as written, and   *)
(* the same graphs with the timing, the length and the depth left open,    *)
(* with one input and with two.                                            *)

\* 0..16 through channels bounded(16), latency 5, initiation interval 1
TestLen == 16
TestDepth == 16
TestLatency == 5

SetMin(S) == CHOOSE x \in S : \A y \in S : x <= y

MapGraphs ==
    UNION {
      {OneInput("map", Block("map", <<1>>, <<3>>, "add5", 0, 1, TestLatency, 0, <<>>),
                TestLen, TestDepth),
       OneInput("flatmap", Block("flatmap", <<1>>, <<3>>, "range", 0, 1, TestLatency, 0, <<>>),
                TestLen, TestDepth)},
      {OneInput(kind, Block(kind, <<1>>, <<3>>, IF kind = "map" THEN "add5" ELSE "range",
                            0, ii, lat, 0, <<>>), len, d)
          : kind \in {"map", "flatmap"}, ii \in Timings, lat \in Timings,
            len \in Lengths, d \in Depths},
      {TwoInputs("flatmap", Block("flatmap", <<1, 2>>, <<3>>, "range", 0, 1, 1, 0, <<>>),
                 len1, len2, d)
          : len1 \in Lengths, len2 \in Lengths, d \in Depths}
    }

\* A Map of two inputs, the divider of the naive pipeline, fed i and i + 1.
DivGraphs ==
    {Graph("map",
           <<Generator(1, [i \in 1..len1 |-> QInt(i)]),
             Generator(2, [i \in 1..len2 |-> QInt(i + 1)]),
             Block("map", <<1, 2>>, <<3>>, "div", 0, 1, 1, 0, <<>>), Consumer(3)>>,
           [c \in {1, 2, 3} |-> d], Params(0, 0, 0, 0, len1, len2))
        : len1 \in Lengths, len2 \in Lengths, d \in Depths}

NextMap ==
    \E b \in BlockIds :
        \/ GeneratorStep(b)
        \/ ConsumerStep(b)
        \/ MapRun(b)
        \/ FlatmapRun(b)
        \/ BroadcastWait(b)
        \/ BroadcastEnqueue(b)

SpecMap ==
    /\ (\E g \in MapGraphs : Start(g)) \/ (\E g \in DivGraphs : Start(g))
    /\ [][NextMap]_vars

\* The block between the generators and the sink of a unit test, the
\* stream generated into one of its inputs, and the tuples it is to take:
\* as many as the shortest input has elements.
Tested == CHOOSE b \in Blocks : net.B[b].kind \notin {"gen", "sink"}
Fed(c) == net.B[CHOOSE g \in Generators : net.B[g].outs = <<c>>].data
TupleCount == SetMin({Len(Fed(c)) : c \in Range(net.B[Tested].ins)})
Tuple(i) == [j \in DOMAIN net.B[Tested].ins |-> Fed(net.B[Tested].ins[j])[i]]
Emitted == chan[net.B[Tested].outs[1]].sent

MapGold == [i \in 1..TupleCount |-> MapF(net.B[Tested].f, Tuple(i))]

IsTestMap ==
    /\ net.B[Tested].kind = "map" /\ net.B[Tested].lat = TestLatency
    /\ net.par.len1 = TestLen

\* C11: a Map emits one output per tuple of inputs, f of the tuple, in the
\* order of the inputs, the i-th stamped no earlier than latency plus i - 1
\* initiation intervals; test_map (x + 5 on 0..16, depth 16, latency 5,
\* ii 1) delivers 5..21 in order, the first stamped >= 5 and the last >= 20.
MapOutputs ==
    net.B[Tested].kind = "map" =>
        /\ IsPrefix(Data(Emitted), MapGold)
        /\ ~Running(Tested) => Data(Emitted) = MapGold
        /\ blk[Sink].pc = "done" => Data(Outputs) = MapGold
        /\ \A i \in DOMAIN Emitted :
              Emitted[i].time >= net.B[Tested].lat + (i - 1) * net.B[Tested].ii
        /\ (IsTestMap /\ blk[Sink].pc = "done") =>
              /\ Data(Outputs) = [i \in 1..16 |-> i + 4]
              /\ Outputs[1].time >= 5
              /\ Outputs[16].time >= 5 + 15

\* test_map is over and the sink has its sixteen values.
MapOutputsSeen ==
    /\ IsTestMap
    /\ AllExited /\ Len(Outputs) = TestLen /\ Outputs[TestLen].data = 20

RECURSIVE Flatten(_)
Flatten(seqs) == IF seqs = <<>> THEN <<>> ELSE Head(seqs) \o Flatten(Tail(seqs))

\* flat_map(|x| 0..x) over the tuples taken, x the first of the tuple
FlatmapGold == Flatten([i \in 1..TupleCount |-> Iota(Tuple(i)[1])])

\* A step of the block under test that takes a tuple and is back at the
\* top of its loop: the expansion of the tuple was empty.
TookEmpty ==
    /\ blk[Tested].pc = "run" /\ blk'[Tested].pc = "run"
    /\ \E c \in Range(net.B[Tested].ins) : chan'[c].rcvd # chan[c].rcvd

\* C12: a Flatmap emits, for each tuple of inputs in order, the elements f
\* produces in the order f produces them (for v -> 0..v the concatenation
\* of 0..x over the inputs x; test_flatmap delivers flat_map(i -> 0..i) of
\* 0..16); a tuple whose expansion is empty emits nothing and leaves the
\* clock where the dequeues put it, no initiation interval added.
FlatmapOutputs ==
    /\ [](net.B[Tested].kind = "flatmap" =>
            /\ IsPrefix(Data(Emitted), FlatmapGold)
            /\ ~Running(Tested) => Data(Emitted) = FlatmapGold
            /\ blk[Sink].pc = "done" => Data(Outputs) = FlatmapGold)
    /\ [][(net.B[Tested].kind = "flatmap" /\ TookEmpty) =>
            /\ Emitted' = Emitted
            /\ blk'[Tested].clock =
                  SetMax({blk[Tested].clock}
                         \cup {Last(chan'[c].rcvd).time : c \in Range(net.B[Tested].ins)})]_vars

\* test_flatmap is over: 0 had nothing to emit, and the sink has the 120
\* values, the last one 14.
FlatmapOutputsSeen ==
    /\ net.B[Tested].kind = "flatmap" /\ net.par.len1 = TestLen
    /\ AllExited /\ Len(Outputs) = 120 /\ Last(Outputs).data = 14

\* C19: a Map or a Flatmap never panics on its inputs: the iteration that
\* finds any one of them exhausted returns, and emits nothing; what was
\* emitted until then is the output for the tuples taken whole.
MapEnds ==
    /\ [](net.B[Tested].kind \in {"map", "flatmap"} =>
            /\ blk[Tested].pc # "panic"
            /\ blk[Tested].pc = "done" =>
                  /\ \E c \in Range(net.B[Tested].ins) : Drained(c)
                  /\ Data(Emitted) =
                        IF net.B[Tested].kind = "map" THEN MapGold ELSE FlatmapGold)
    /\ [][(/\ net.B[Tested].kind \in {"map", "flatmap"}
           /\ blk[Tested].pc = "run" /\ blk'[Tested] # blk[Tested]
           /\ \E c \in Range(net.B[Tested].ins) : Drained(c)) =>
            /\ blk'[Tested].pc = "done"
            /\ Emitted' = Emitted /\ blk'[Tested].held = None]_vars

\* A Map of two inputs has returned after two outputs: its first input
\* ended, its second still had an element, which it took.
MapEndsSeen ==
    /\ net.B[Tested].kind = "map" /\ Len(net.B[Tested].ins) = 2
    /\ blk[Tested].pc = "done" /\ Len(Emitted) = 2
    /\ Drained(1) /\ Len(chan[1].rcvd) = 2 /\ Len(chan[2].rcvd) = 3

----------------------------------------------------------------------------
(* Matmul under test (run_test): the batches of A [M, K] and B [K, N] are  *)
(* sequences of matrices, a matrix a sequence of rows.                     *)

Rows(mat) == Len(mat)
Cols(mat) == Len(mat[1])

Matrices(R, C) == [1..R -> [1..C -> Values]]

\* The matrix of R x C that counts its entries from a number on.
Counting(R, C, from) == [r \in 1..R |-> [c \in 1..C |-> from + (r - 1) * C + c]]

\* Buffered: every A as it is, row-major.
LeftBuffered(as) ==
    LET M == Rows(as[1])
        K == Cols(as[1])
    IN [x \in 1..(Len(as) * M * K) |->
          as[1 + (x - 1) \div (M * K)][1 + (((x - 1) \div K) % M)][1 + ((x - 1) % K)]]

\* Repeated: every row of A, N times.
LeftRepeated(as, N) ==
    LET M == Rows(as[1])
        K == Cols(as[1])
    IN [x \in 1..(Len(as) * M * N * K) |->
          as[1 + (x - 1) \div (M * N * K)][1 + (((x - 1) \div (N * K)) % M)][1 + ((x - 1) % K)]]

\* Either behaviour: B transposed, row-major, M times.
RightTransposed(bs, M) ==
    LET K == Rows(bs[1])
        N == Cols(bs[1])
    IN [x \in 1..(Len(bs) * M * N * K) |->
          bs[1 + (x - 1) \div (M * N * K)][1 + ((x - 1) % K)][1 + (((x - 1) \div K) % N)]]

Dot(a, b, m, n) ==
    SumFromTo([k \in 1..Cols(a) |-> a[m][k] * b[k][n]], 1, Cols(a))

\* gold: a.dot(b) of every batch, row-major
MatmulGold(as, bs) ==
    LET M == Rows(as[1])
        N == Cols(bs[1])
    IN [x \in 1..(Len(as) * M * N) |->
          Dot(as[1 + (x - 1) \div (M * N)], bs[1 + (x - 1) \div (M * N)],
              1 + (((x - 1) \div N) % M), 1 + ((x - 1) % N))]

MatmulTest(kind, as, bs, d) ==
    LET M == Rows(as[1])
        K == Cols(as[1])
        N == Cols(bs[1])
    IN Graph(kind,
             <<Generator(1, IF kind = "mmbuf" THEN LeftBuffered(as) ELSE LeftRepeated(as, N)),
               Generator(2, RightTransposed(bs, M)),
               MatmulBlock(kind, 1, 2, 3, "mac", M, N, K, 1, 1, 0),
               Consumer(3)>>,
             [c \in {1, 2, 3} |-> d],
             [as |-> as, bs |-> bs])

\* One batch of every A and B over the values, for every shape under test;
\* one and two batches of matrices whose entries all differ.
MatmulGraphs ==
    UNION {
      {MatmulTest(kind, <<a>>, <<b>>, d)
          : kind \in {"mmbuf", "mmrep"}, d \in Depths,
            a \in Matrices(sh[1], sh[3]), b \in Matrices(sh[3], sh[2])}
      : sh \in MatmulShapes }
    \cup
    UNION {
      {MatmulTest(kind, [t \in 1..nb |-> Counting(sh[1], sh[3], 3 * t)],
                  [t \in 1..nb |-> Counting(sh[3], sh[2], 5 * t)], d)
          : kind \in {"mmbuf", "mmrep"}, d \in Depths, nb \in {1, 2}}
      : sh \in MatmulShapes \cup {<<2, 2, 2>>, <<1, 1, 1>>} }

NextMatmul ==
    \E b \in BlockIds :
        \/ GeneratorStep(b)
        \/ ConsumerStep(b)
        \/ BufferedPeek(b)
        \/ BufferedLeft(b)
        \/ RepeatedRun(b)
        \/ MatmulSend(b)

SpecMatmul == (\E g \in MatmulGraphs : Start(g)) /\ [][NextMatmul]_vars

\* C13: for every shape and number of batches, a Matmul fed the layout of
\* its behaviour (Buffered: A row-major once; Repeated: every row of A N
\* times; either: B transposed M times) emits C = A * B row-major, batch
\* after batch, M * N outputs a batch: the same sequence in both
\* behaviours, the product being a function of A and B alone.
MatmulProduct ==
    LET gold == MatmulGold(net.par.as, net.par.bs)
    IN /\ IsPrefix(Data(Emitted), gold)
       /\ ~Running(Tested) => Data(Emitted) = gold
       /\ blk[Sink].pc = "done" =>
             /\ Data(Outputs) = gold
             /\ Len(Outputs) = Len(net.par.as) * net.B[Tested].M * net.B[Tested].N

\* A Repeated Matmul of shape 2 x 2 x 2 is over after two batches, and the
\* sink has the eight entries of the two products.
MatmulProductSeen ==
    /\ net.variant = "mmrep" /\ Len(net.par.as) = 2
    /\ net.B[Tested].M = 2 /\ net.B[Tested].N = 2 /\ net.B[Tested].K = 2
    /\ AllExited /\ Len(Outputs) = 8

----------------------------------------------------------------------------
(* Zip and Matmul fed streams of every length, matched or not. *)

EndGraphs ==
    UNION {
      {TwoInputs("zip", Block("zip", <<1, 2>>, <<3>>, "", 0, 0, 0, 0, <<>>), len1, len2, d)
          : len1 \in Lengths, len2 \in Lengths, d \in Depths},
      {TwoInputs(kind, MatmulBlock(kind, 1, 2, 3, "mac", shape[1], shape[2], shape[3], 1, 1, 0),
                 len1, len2, d)
          : kind \in {"mmbuf", "mmrep"}, shape \in MatmulShapes,
            len1 \in Lengths, len2 \in Lengths, d \in Depths}
    }

NextEnds ==
    \E b \in BlockIds :
        \/ GeneratorStep(b)
        \/ ConsumerStep(b)
        \/ ZipRun(b)
        \/ BroadcastWait(b)
        \/ BroadcastEnqueue(b)
        \/ BufferedPeek(b)
        \/ BufferedLeft(b)
        \/ RepeatedRun(b)
        \/ MatmulSend(b)

SpecEnds == (\E g \in EndGraphs : Start(g)) /\ [][NextEnds]_vars

\* The block under test leaves the top of its loop.
LeavesTop == blk[Tested].pc = "run" /\ blk'[Tested].pc # "run"

\* C18: a Zip returns only from an iteration that finds both inputs
\* exhausted; an iteration that finds one exhausted and an element on the
\* other panics, and no pair is emitted for it: what was emitted is one
\* pair for each element of the shorter input.
ZipEnds ==
    /\ [](net.variant = "zip" =>
            /\ blk[Tested].pc = "done" =>
                  /\ Drained(1) /\ Drained(2)
                  /\ Len(Fed(1)) = Len(Fed(2)) /\ Len(Emitted) = Len(Fed(1))
            /\ blk[Tested].pc = "panic" =>
                  /\ Len(Fed(1)) # Len(Fed(2))
                  /\ Len(Emitted) = TupleCount /\ blk[Tested].held = None)
    /\ [][(net.variant = "zip" /\ LeavesTop) =>
            IF Drained(1) /\ Drained(2) THEN blk'[Tested].pc = "done"
            ELSE IF Drained(1) \/ Drained(2)
                 THEN blk'[Tested].pc = "panic" /\ Emitted' = Emitted
                 ELSE blk'[Tested].pc = "wait"]_vars

\* A Zip has panicked after two pairs: its left input ended, its right
\* input had a third element.
ZipEndsSeen ==
    /\ net.variant = "zip" /\ blk[Tested].pc = "panic"
    /\ Len(Emitted) = 2 /\ Drained(1) /\ Len(chan[2].rcvd) = 3

\* C20: in both behaviours a Matmul that finds its left or its right stream
\* exhausted returns only at the start of a batch (m = n = k = 0, whole
\* batches of M * N outputs emitted); at any other (m, n, k) it panics.
MatmulEnds ==
    /\ [](net.variant \in {"mmbuf", "mmrep"} =>
            /\ blk[Tested].pc = "done" =>
                  /\ blk[Tested].m = 0 /\ blk[Tested].n = 0 /\ blk[Tested].k = 0
                  /\ Len(Emitted) % (net.B[Tested].M * net.B[Tested].N) = 0
                  /\ Drained(1) \/ Drained(2)
            /\ blk[Tested].pc = "panic" =>
                  /\ ~(blk[Tested].m = 0 /\ blk[Tested].n = 0 /\ blk[Tested].k = 0)
                  /\ Drained(1) \/ Drained(2))
    /\ [][(/\ blk'[Tested] # blk[Tested]
           /\ \/ net.variant = "mmrep" /\ blk[Tested].pc = "run" /\ (Drained(1) \/ Drained(2))
              \/ net.variant = "mmbuf" /\ blk[Tested].pc = "run" /\ Drained(2)
              \/ net.variant = "mmbuf" /\ blk[Tested].pc = "left" /\ Drained(1)) =>
            blk'[Tested].pc = IF blk[Tested].m = 0 /\ blk[Tested].n = 0 /\ blk[Tested].k = 0
                              THEN "done" ELSE "panic"]_vars

\* A Buffered Matmul has panicked in the second row of a batch, and a
\* Repeated one could: the right stream ended after the first row.
MatmulEndsSeen ==
    /\ net.variant = "mmbuf" /\ blk[Tested].pc = "panic"
    /\ blk[Tested].m = 1 /\ Len(Emitted) = net.B[Tested].N
    /\ Drained(2)

----------------------------------------------------------------------------
(* How Reduce and Scan end, on every short stream *)

\* The elements the block under test has taken fill whole windows.
WholeWindows == Len(chan[1].rcvd) % net.B[Tested].W = 0

\* The block under test is at the top of its loop, finds its input
\* exhausted, and steps.
FindsExhausted ==
    /\ blk[Tested].pc = "run" /\ blk'[Tested] # blk[Tested]
    /\ Drained(1)

\* C16 as stated: a Reduce that has returned has taken nothing, the
\* dequeue that failed being the first of the first window.
ReduceEndsAtFirstWindow ==
    (net.variant = "reduce" /\ blk[Tested].pc = "done") => chan[1].rcvd = <<>>

\* C16: a Reduce returns when the first dequeue of a window, the first
\* window or a later one, finds the input exhausted: it has then emitted
\* one output for every window; it panics when any other dequeue does.
ReduceEnds ==
    /\ [](net.variant = "reduce" =>
            /\ blk[Tested].pc = "done" => Drained(1) /\ WholeWindows
            /\ blk[Tested].pc = "panic" => Drained(1) /\ ~WholeWindows
            /\ ~Running(Tested) =>
                  Len(Emitted) = Len(chan[1].rcvd) \div net.B[Tested].W)
    /\ [][(net.variant = "reduce" /\ FindsExhausted) =>
            blk'[Tested].pc = IF WholeWindows THEN "done" ELSE "panic"]_vars

\* A Reduce over windows of 2 has returned after two whole windows, and
\* another has panicked in its second window.
ReduceEndsSeen ==
    /\ net.variant = "reduce" /\ net.B[Tested].W = 2
    /\ blk[Tested].pc = "done" /\ Len(chan[1].rcvd) = 4 /\ Len(Emitted) = 2

\* C17: a Scan returns if and only if the input is found exhausted at the
\* first element of a window; found exhausted at any other element it
\* panics, the prefix values of the partial window emitted before.
ScanEnds ==
    /\ [](net.variant = "scan" =>
            /\ blk[Tested].pc = "done" => Drained(1) /\ WholeWindows
            /\ blk[Tested].pc = "panic" => Drained(1) /\ ~WholeWindows
            /\ ~Running(Tested) =>
                  Data(Emitted) = WindowPrefixSums(Fed(1), net.B[Tested].W))
    /\ [][(net.variant = "scan" /\ FindsExhausted) =>
            blk'[Tested].pc = IF WholeWindows THEN "done" ELSE "panic"]_vars

\* A Scan over windows of 2 has panicked at the second element of its
\* second window, three prefix values emitted.
ScanEndsSeen ==
    /\ net.variant = "scan" /\ net.B[Tested].W = 2
    /\ blk[Tested].pc = "panic" /\ Len(chan[1].rcvd) = 3 /\ Len(Emitted) = 3

----------------------------------------------------------------------------
(* Both pipelines on the same inputs: scores S [N, N] (the product of Q    *)
(* and K transposed) and values V [N, D], matrices of integers, one batch. *)

ScoreStream(S) ==
    LET N == Rows(S)
    IN [x \in 1..(N * N) |-> QInt(S[1 + (x - 1) \div N][1 + ((x - 1) % N)])]

\* v.t() row-major, once for every query row
VTransposed(V, N) ==
    LET D == Cols(V)
    IN [x \in 1..(N * N * D) |-> QInt(V[1 + ((x - 1) % N)][1 + (((x - 1) \div N) % D)])]

\* v row-major, once for every query row
VRowMajor(V, N) ==
    LET D == Cols(V)
    IN [x \in 1..(N * N * D) |-> QInt(V[1 + (((x - 1) \div D) % N)][1 + ((x - 1) % D)])]

\* A pipeline fed the streams of S and V instead.
On(g, v, S, V) ==
    [g EXCEPT !.B[1].data = ScoreStream(S), !.B[2].data = v,
              !.par = [N |-> g.par.N, D |-> g.par.D, nb |-> 1, long |-> g.par.long,
                       S |-> S, V |-> V]]

NaiveOn(S, V, short, long) ==
    On(Naive(Rows(S), Cols(V), 1, short, long, Ones), VTransposed(V, Rows(S)), S, V)

AgnosticOn(S, V, depth) ==
    On(Agnostic(Rows(S), Cols(V), 1, depth, Ones), VRowMajor(V, Rows(S)), S, V)

\* Scores of two rows: the maximum of a row its last score, its first, both,
\* ahead by one and by two.
AttnScores ==
    { <<<<0, 1>>, <<1, 0>>>>, <<<<1, 1>>, <<0, 2>>>>, <<<<2, 0>>, <<0, 0>>>> }

\* Rows of one score and of two, against values of one column and of two
\* that all differ; the long buffer holds a row.
AttnGraphs ==
    UNION {
      {NaiveOn(S, Counting(1, D, 0), 1, 1) : S \in [1..1 -> [1..1 -> {0, 1}]], D \in {1, 2}},
      {NaiveOn(S, Counting(2, 1, 0), 1, 2) : S \in AttnScores},
      {NaiveOn(<<<<0, 1>>, <<1, 0>>>>, Counting(2, 2, 0), 1, 2)}
    }

\* The naive run is over: its output is kept, and the agnostic pipeline is
\* run on the same S and V.
RunOther ==
    LET g == AgnosticOn(net.par.S, net.par.V, net.C[1])
    IN /\ net.variant = "naive" /\ AllExited /\ ref = None
       /\ ref' = Some(Data(Outputs))
       /\ net' = g
       /\ chan' = [c \in DOMAIN g.C |-> NewChan(g.C[c])]
       /\ blk' = [b \in DOMAIN g.B |-> BlockInit]

NextAttn == NextPipe \/ RunOther

SpecAttn == (\E g \in AttnGraphs : Start(g)) /\ [][NextAttn]_vars

RECURSIVE QSum(_)
QSum(seq) == IF seq = <<>> THEN QInt(0) ELSE QAdd(Head(seq), QSum(Tail(seq)))

\* compute_attention, row i of the scores: exp(s_j - max_j s_j), their sum,
\* their sum weighted by column d of V, and the quotients row-major.
Weight(S, i, j) == QExp(QInt(S[i][j] - SetMax({S[i][x] : x \in 1..Rows(S)})))
Denominator(S, i) == QSum([j \in 1..Rows(S) |-> Weight(S, i, j)])
Numerator(S, V, i, d) == QSum([j \in 1..Rows(S) |-> QMul(Weight(S, i, j), QInt(V[j][d]))])
ComputeAttention(S, V) ==
    LET D == Cols(V)
    IN [x \in 1..(Rows(S) * D) |->
          QDiv(Numerator(S, V, 1 + (x - 1) \div D, 1 + ((x - 1) % D)),
               Denominator(S, 1 + (x - 1) \div D))]

\* C14: in the agnostic pipeline, for every query row i, what the residual
\* reducer holds and emits at the end of the window is the sum over j of
\* exp(s_j - max s), what the vector reducer holds and emits is the sum of
\* exp(s_j - max s) * v_j, and the D values the final Flatmap emits for the
\* row are their quotients, softmax(s) . V, in the order 0..D-1.
AgnosticSoftmax ==
    net.variant = "agnostic" =>
        LET S == net.par.S
            V == net.par.V
            residuals == [i \in 1..Rows(S) |-> Denominator(S, i)]
            vectors == [i \in 1..Rows(S) |-> [d \in 1..Cols(V) |-> Numerator(S, V, i, d)]]
        IN /\ IsPrefix(Data(chan[5].sent), residuals)
           /\ IsPrefix(Data(chan[6].sent), vectors)
           /\ IsPrefix(Data(chan[9].sent), ComputeAttention(S, V))
           /\ AllExited =>
                 /\ Data(chan[5].sent) = residuals
                 /\ Data(chan[6].sent) = vectors
                 /\ Data(Outputs) = ComputeAttention(S, V)

\* An agnostic run of two rows of two scores is over; the maximum of the
\* first row was its second score, and the values have two columns.
AgnosticSoftmaxSeen ==
    /\ net.variant = "agnostic" /\ net.par.N = 2 /\ net.par.D = 2
    /\ net.par.S[1][1] < net.par.S[1][2]
    /\ AllExited /\ Len(Outputs) = 4

\* C15: on the same scores and values, each pipeline fed V in its own
\* layout, the agnostic pipeline emits what the naive one did: N * D
\* elements, equal position by position.
SameAttention ==
    (net.variant = "agnostic" /\ ref # None /\ AllExited) =>
        /\ Len(Outputs) = net.par.N * net.par.D
        /\ Data(Outputs) = ref[1]

\* Both runs are over on two rows of two different scores and values of
\* two columns, the four outputs equal.
SameAttentionSeen ==
    /\ net.variant = "agnostic" /\ net.par.N = 2 /\ net.par.D = 2
    /\ net.par.S[2][1] > net.par.S[2][2]
    /\ ref # None /\ AllExited /\ Len(ref[1]) = 4 /\ Data(Outputs) = ref[1]

----------------------------------------------------------------------------
(* Fan-out.  A block whose BroadcastSender has two targets: both feed a    *)
(* sink (FanOut), or one feeds a sink and the other a two-input Map whose  *)
(* second input comes from a generator of its own (FanJoin).  That Map     *)
(* returns as soon as either input is exhausted, so the receiver of the    *)
(* broadcast's target 4 can go away while the broadcast is still sending.  *)

Repeats == 0..(MaxW + 1)

\* Channel 1 feeds the block, channels 3 and 4 are its targets.
FanOut(blockUnderTest, len, d3, d4) ==
    Graph("fanout",
          <<Generator(1, Iota(len)), blockUnderTest, Consumer(3), Consumer(4)>>,
          [c \in {1, 3, 4} |-> IF c = 4 THEN d4 ELSE d3],
          Params(0, 0, 0, 0, len, 0))

\* Channel 2 is the Map's own input, channel 5 its output.
FanJoin(blockUnderTest, len1, len2, depth) ==
    Graph("fanjoin",
          <<Generator(1, Iota(len1)), blockUnderTest,
            Generator(2, Iota(len2)),
            Block("map", <<4, 2>>, <<5>>, "", 0, 1, 1, 0, <<>>),
            Consumer(3), Consumer(5)>>,
          [c \in 1..5 |-> depth],
          Params(0, 0, 0, 0, len1, len2))

FanGraphs ==
    UNION {
      {FanOut(Block("repeat", <<1>>, outs, "", R, 0, 0, 0, <<>>), len, d3, d4)
          : R \in Repeats, outs \in {<<3, 4>>}, len \in Lengths,
            d3 \in Depths, d4 \in Depths},
      {FanJoin(Block("repeat", <<1>>, outs, "", R, 0, 0, 0, <<>>), len1, len2, d)
          : R \in {1, 2}, outs \in {<<3, 4>>, <<4, 3>>},
            len1 \in {2, 3}, len2 \in {0, 1}, d \in Depths},
      {FanJoin(Block("map", <<1>>, outs, "add5", 0, 1, 1, 0, <<>>), len1, len2, d)
          : outs \in {<<3, 4>>, <<4, 3>>}, len1 \in {2, 3}, len2 \in {0, 1}, d \in Depths}
    }

NextFan ==
    \E b \in BlockIds :
        \/ GeneratorStep(b)
        \/ ConsumerStep(b)
        \/ RepeatRun(b)
        \/ MapRun(b)
        \/ BroadcastWait(b)
        \/ BroadcastEnqueue(b)

SpecFan == (\E g \in FanGraphs : Start(g)) /\ [][NextFan]_vars

\* The block that fans out, and what its two targets were handed.
Fan == CHOOSE b \in Blocks : Len(net.B[b].outs) = 2
Handed(c) == chan[c].sent

\* Every element of seq R times in a row.
Expand(seq, R) == [i \in 1..(R * Len(seq)) |-> seq[1 + ((i - 1) \div R)]]

\* C21: a Repeat whose targets stay open has handed each target, at any
\* time, a prefix of its input with every element R times in a row; it
\* never panics, it returns only when its input is closed and drained, and
\* it has then handed each target R times the length of its input.
RepeatOutputs ==
    (net.variant = "fanout" /\ net.B[Fan].kind = "repeat") =>
        /\ blk[Fan].pc # "panic"
        /\ \A c \in Range(net.B[Fan].outs) :
              /\ IsPrefix(Data(Handed(c)), Expand(Iota(net.par.len1), net.B[Fan].W))
              /\ blk[Fan].pc = "run" =>
                    Data(Handed(c)) = Expand(Data(chan[1].rcvd), net.B[Fan].W)
        /\ blk[Fan].pc = "done" =>
              /\ chan[1].sclosed /\ chan[1].q = <<>>
              /\ \A c \in Range(net.B[Fan].outs) :
                    Len(Handed(c)) = net.B[Fan].W * net.par.len1

\* A Repeat(3) has returned after handing both targets three copies of
\* each of two elements.
RepeatOutputsSeen ==
    /\ net.variant = "fanout" /\ net.B[Fan].kind = "repeat"
    /\ net.B[Fan].W = 3 /\ net.par.len1 = 2
    /\ blk[Fan].pc = "done"
    /\ \A c \in {3, 4} : Data(Handed(c)) = <<0, 0, 0, 1, 1, 1>>

\* Positions j, j + 1 of what a Repeat(R) handed a target hold two copies
\* of the same element.
SameElement(j) == j % net.B[Fan].W # 0

\* C22 as stated: of two consecutive copies of one element, the second is
\* stamped exactly one cycle after the first.
CopiesOneCycleApart ==
    net.B[Fan].kind = "repeat" =>
        \A c \in Range(net.B[Fan].outs) : \A j \in 1..(Len(Handed(c)) - 1) :
            SameElement(j) => Handed(c)[j + 1].time = Handed(c)[j].time + 1

\* C22, amended: every copy is stamped with Repeat's clock at the moment
\* it is built, plus one; handing a copy to the targets does not advance
\* the clock, so the next copy of the element carries the same stamp
\* unless Repeat had to wait for room in a target, and never an earlier
\* one.
CopiesStampedAtClock ==
    /\ [](net.B[Fan].kind = "repeat" =>
            /\ (blk[Fan].pc = "wait" /\ blk[Fan].w = 1) =>
                    blk[Fan].held[1].time = blk[Fan].clock + 1
            /\ \A c \in Range(net.B[Fan].outs) : \A j \in 1..(Len(Handed(c)) - 1) :
                    SameElement(j) => Handed(c)[j + 1].time >= Handed(c)[j].time)
    /\ [][(net.B[Fan].kind = "repeat" /\ blk[Fan].pc = "enq") =>
            /\ blk'[Fan].clock = blk[Fan].clock
            /\ blk'[Fan].pc = "wait" =>
                  blk'[Fan].held[1].time = Max(blk[Fan].held[1].time, blk[Fan].clock + 1)]_vars

\* A Repeat(2) has handed a target two copies of its first element with the
\* same stamp, and two copies of its second element one of which waited
\* for room and is stamped later.
CopiesStampedAtClockSeen ==
    /\ net.B[Fan].kind = "repeat" /\ net.B[Fan].W = 2
    /\ Len(Handed(3)) >= 4
    /\ Handed(3)[1].time = Handed(3)[2].time
    /\ Handed(3)[3].time < Handed(3)[4].time

\* C23: between two calls of BroadcastSender::enqueue, hence whenever a
\* call has returned, every target has been handed the same number of
\* elements: a call hands its element to all targets or to none.
AllTargetsOrNone ==
    \A c \in Range(net.B[Fan].outs) : \A d \in Range(net.B[Fan].outs) :
        Len(Handed(c)) = Len(Handed(d))

\* C24: a call of BroadcastSender::enqueue that finds, in its wait phase,
\* the target it waits on closed ends there with the closed error (which
\* the calling block unwraps), and hands its element to no target, the
\* targets it waited on before included; a block stopped by that error
\* still holds the element.
ClosedInWaitPhase ==
    /\ [](blk[Fan].pc = "panic" =>
            /\ blk[Fan].held # None
            /\ SendClosed(chan, net.B[Fan].outs[blk[Fan].w]))
    /\ [][(/\ blk[Fan].pc = "wait"
           /\ blk'[Fan] # blk[Fan]
           /\ SendClosed(chan, net.B[Fan].outs[blk[Fan].w])) =>
            /\ blk'[Fan].pc = "panic"
            /\ \A c \in Range(net.B[Fan].outs) :
                  Handed(c)' = Handed(c) /\ chan'[c].q = chan[c].q]_vars

\* A broadcast has stopped on the closed error of its second target, after
\* its wait on the first, which it has handed nothing for this call: the
\* first target got the one element of the call before.
ClosedInWaitPhaseSeen ==
    /\ blk[Fan].pc = "panic" /\ blk[Fan].w = 2
    /\ net.B[Fan].kind = "map"
    /\ Len(chan[1].rcvd) = 2
    /\ Len(Handed(net.B[Fan].outs[1])) = 1

----------------------------------------------------------------------------
(* One batch through either pipeline, with V streamed once per row of the  *)
(* scores (N * N * D elements, as the driver and the tests stream it) or   *)
(* once only (N * D elements).                                             *)

BatchShapes == {<<1, 1>>, <<1, 2>>, <<2, 1>>, <<2, 2>>}

\* The graph fed the first N * D elements of its V stream only.
VOnce(g) ==
    [g EXCEPT !.B[2].data = SubSeq(@, 1, g.par.N * g.par.D),
              !.par.len2 = g.par.N * g.par.D]

BatchGraphs ==
    LET whole == {Naive(sh[1], sh[2], 1, short, 2, Ones) : sh \in BatchShapes, short \in Depths}
                 \cup {Agnostic(sh[1], sh[2], 1, 1, Ones) : sh \in BatchShapes}
    IN whole \cup {VOnce(g) : g \in whole}

SpecBatch == (\E g \in BatchGraphs : Start(g)) /\ [][NextPipe]_vars

\* The run of one batch goes through: no block panics, the run cannot stop
\* before every block has returned, and the sink has then N * D elements.
BatchGoesThrough ==
    /\ NoPanic
    /\ ~ENABLED NextPipe => AllExited
    /\ AllExited => Len(Outputs) = net.par.N * net.par.D

----------------------------------------------------------------------------
(* Timing of the primitives *)

\* The i-th elements a block has dequeued from its inputs.
TakenAt(i) == {chan[c].rcvd[i] : c \in Range(net.B[Tested].ins)}

\* C26: a Map stamps every output with its clock after the dequeue of the
\* inputs (a clock that has reached the latest of their timestamps) plus
\* the latency, and adds the initiation interval to its clock once the
\* output is enqueued: an output is stamped at least the latency after
\* each of its inputs and at least the initiation interval after the
\* output before it.
MapTiming ==
    /\ [](net.B[Tested].kind = "map" =>
            \A i \in DOMAIN Emitted :
                /\ \A el \in TakenAt(i) : Emitted[i].time >= el.time + net.B[Tested].lat
                /\ i > 1 => Emitted[i].time >= Emitted[i - 1].time + net.B[Tested].ii)
    /\ [][net.B[Tested].kind = "map" =>
            /\ (blk[Tested].pc = "run" /\ blk'[Tested].pc = "wait") =>
                  /\ blk'[Tested].clock =
                        SetMax({blk[Tested].clock}
                               \cup {Last(chan'[c].rcvd).time : c \in Range(net.B[Tested].ins)})
                  /\ blk'[Tested].held[1].time = blk'[Tested].clock + net.B[Tested].lat
            /\ (blk[Tested].pc = "enq" /\ blk'[Tested].pc = "run") =>
                  blk'[Tested].clock = blk[Tested].clock + net.B[Tested].ii]_vars

\* A Map of latency 1 and initiation interval 2 has stamped its first
\* output one cycle after its input and its second output two cycles after
\* the first, later than the second input plus the latency.
MapTimingSeen ==
    /\ net.B[Tested].kind = "map" /\ net.B[Tested].lat = 1 /\ net.B[Tested].ii = 2
    /\ Len(Emitted) >= 2
    /\ Emitted[1].time = chan[1].rcvd[1].time + 1
    /\ Emitted[2].time = Emitted[1].time + 2
    /\ Emitted[2].time > chan[1].rcvd[2].time + 1

\* C27: a Reduce adds reset_time to its clock when it opens a window,
\* before the window's first dequeue (the last attempt, which finds the
\* input exhausted and returns, included), adds the initiation interval
\* after each input, and stamps the output of a window with its clock
\* after the W-th input plus the latency: outputs are at least
\* reset_time + W * initiation_interval apart.
ReduceTiming ==
    /\ [](net.variant = "reduce" =>
            LET s == net.B[Tested]
            IN /\ \A i \in DOMAIN Emitted :
                     /\ Emitted[i].time >= i * (s.rst + s.W * s.ii) + s.lat
                     /\ i > 1 => Emitted[i].time >= Emitted[i - 1].time + s.rst + s.W * s.ii
               /\ blk[Tested].pc = "done" =>
                     blk[Tested].clock >=
                        (Len(Emitted) + 1) * s.rst + Len(Emitted) * s.W * s.ii)
    /\ [][(net.variant = "reduce" /\ blk[Tested].pc = "run" /\ blk'[Tested] # blk[Tested]) =>
            LET s == net.B[Tested]
                opened == IF blk[Tested].it = 0
                          THEN blk[Tested].clock + s.rst ELSE blk[Tested].clock
            IN /\ Len(chan'[1].rcvd) > Len(chan[1].rcvd) =>
                     /\ blk'[Tested].clock = Max(opened, Last(chan'[1].rcvd).time) + s.ii
                     /\ blk'[Tested].pc = "send" =>
                           blk'[Tested].held[1].time = blk'[Tested].clock + s.lat
               /\ blk'[Tested].pc = "done" => blk'[Tested].clock = opened]_vars

\* A Reduce of windows of 2, reset time 2 and initiation interval 1 has
\* returned after two windows stamped four cycles apart, its clock two
\* cycles past the second.
ReduceTimingSeen ==
    /\ net.variant = "reduce"
    /\ net.B[Tested].W = 2 /\ net.B[Tested].rst = 2 /\ net.B[Tested].ii = 1
    /\ net.B[Tested].lat = 0
    /\ blk[Tested].pc = "done" /\ Len(Emitted) = 2
    /\ Emitted[2].time = Emitted[1].time + 4
    /\ blk[Tested].clock = Emitted[2].time + 2

\* The rows of A opened when a Matmul emits its j-th output.
RowsOpened(j) == 1 + ((j - 1) \div net.B[Tested].N)

\* C28 as stated: in both behaviours reset_time is added to the clock at
\* the start of each row of A and dot_ii at each MAC, and an output is
\* stamped clock + dot_latency: the j-th output is stamped no earlier than
\* the reset times of the rows opened, j * K MACs and the latency.
ResetPerRowInBoth ==
    net.variant \in {"mmbuf", "mmrep"} =>
        \A j \in DOMAIN Emitted :
            Emitted[j].time >=
                RowsOpened(j) * net.B[Tested].rst
                + j * net.B[Tested].K * net.B[Tested].ii + net.B[Tested].lat

----------------------------------------------------------------------------
(* The left buffer of a Buffered Matmul *)

\* The MACs done so far, the rows of A completed, and the elements dequeued.
MacsDone ==
    Len(Emitted) * net.B[Tested].K
    + (IF blk[Tested].pc = "send" THEN net.B[Tested].K ELSE blk[Tested].k)
RowsDone == Len(Emitted) \div net.B[Tested].N
LeftTaken == Len(chan[1].rcvd)
RightTaken == Len(chan[2].rcvd)

\* C29: a Buffered Matmul dequeues one right element per MAC, and one left
\* element per MAC of the first column (n = 0) only: K left and N * K right
\* elements per row of A.  Its buffer never holds more than K elements; it
\* is empty when a row starts, holds the k elements dequeued so far while
\* n = 0, and the K elements of the current row in order while n > 0; the
\* element read at k is there.
LeftBufferHoldsRow ==
    net.variant = "mmbuf" =>
        LET s == net.B[Tested]
            st == blk[Tested]
        IN /\ RightTaken = MacsDone
           /\ LeftTaken = RowsDone * s.K + Len(st.buf)
           /\ LeftTaken <= (RowsDone + 1) * s.K
           /\ RightTaken <= (RowsDone + 1) * s.N * s.K
           /\ st.m = RowsDone % s.M
           /\ Len(st.buf) <= s.K
           /\ (st.n = 0 /\ st.pc # "send") => Len(st.buf) = st.k
           /\ (st.n > 0 \/ st.pc = "send") =>
                 st.buf = SubSeq(Fed(1), RowsDone * s.K + 1, (RowsDone + 1) * s.K)
           /\ (st.n > 0 /\ st.pc = "run") => st.k + 1 <= Len(st.buf)
           /\ AllExited =>
                 /\ LeftTaken = RowsDone * s.K
                 /\ RightTaken = RowsDone * s.N * s.K

\* A Buffered Matmul of [2, 2] by [2, 2] is in the second column of its
\* second row, the buffer holding that row, with one MAC of the column
\* done.
LeftBufferHoldsRowSeen ==
    /\ net.variant = "mmbuf"
    /\ net.B[Tested].M = 2 /\ net.B[Tested].N = 2 /\ net.B[Tested].K = 2
    /\ blk[Tested].m = 1 /\ blk[Tested].n = 1 /\ blk[Tested].k = 1
    /\ blk[Tested].buf = SubSeq(Fed(1), 3, 4)
    /\ LeftTaken = 4 /\ RightTaken = 7

----------------------------------------------------------------------------
(* Zip of two streams that differ, 0, 1, .. on the left and 11, 12, .. on  *)
(* the right, one of which comes through a Map of latency 2 and so         *)
(* arrives stamped later than the other.                                   *)

ZipLeft(len) == Iota(len)
ZipRight(len) == [i \in 1..len |-> 10 + i]

\* Channels 1 and 2 enter the Zip, 3 leaves it, 4 enters the Map, which
\* feeds channel late.
ZipGraphs ==
    {Graph("zip",
           <<Generator(IF late = 1 THEN 4 ELSE 1, ZipLeft(len1)),
             Generator(IF late = 2 THEN 4 ELSE 2, ZipRight(len2)),
             Block("zip", <<1, 2>>, <<3>>, "", 0, 0, 0, 0, <<>>),
             Consumer(3),
             Block("map", <<4>>, <<late>>, "", 0, 1, 2, 0, <<>>)>>,
           [c \in 1..4 |-> d],
           Params(0, 0, 0, 0, len1, len2))
        : late \in {1, 2}, len1 \in Lengths, len2 \in Lengths, d \in Depths}

NextZip ==
    \E b \in BlockIds :
        \/ GeneratorStep(b)
        \/ ConsumerStep(b)
        \/ MapRun(b)
        \/ ZipRun(b)
        \/ BroadcastWait(b)
        \/ BroadcastEnqueue(b)

SpecZip == (\E g \in ZipGraphs : Start(g)) /\ [][NextZip]_vars

Zipper == CHOOSE b \in Blocks : net.B[b].kind = "zip"
Zipped == chan[3].sent

\* C30: the i-th pair a Zip emits is the i-th element of its left input
\* with the i-th element of its right input, for every i up to the length
\* of the shorter input; a pair is stamped with the clock after the dequeue
\* of both (the latest of the clock and their timestamps) plus one, hence
\* later than both.
ZipPairs ==
    /\ [](/\ Len(Zipped) <= SetMin({net.par.len1, net.par.len2})
          /\ ~Running(Zipper) => Len(Zipped) = SetMin({net.par.len1, net.par.len2})
          /\ \A i \in DOMAIN Zipped :
                /\ Zipped[i].data = <<ZipLeft(net.par.len1)[i], ZipRight(net.par.len2)[i]>>
                /\ Zipped[i].data = <<chan[1].rcvd[i].data, chan[2].rcvd[i].data>>
                /\ Zipped[i].time >= Max(chan[1].rcvd[i].time, chan[2].rcvd[i].time) + 1
          /\ IsPrefix(Outputs, Zipped))
    /\ [][(blk[Zipper].pc = "run" /\ blk'[Zipper].pc = "wait") =>
            /\ blk'[Zipper].clock =
                  SetMax({blk[Zipper].clock, Last(chan'[1].rcvd).time, Last(chan'[2].rcvd).time})
            /\ blk'[Zipper].held[1] =
                  Elem(blk'[Zipper].clock + 1,
                       <<Last(chan'[1].rcvd).data, Last(chan'[2].rcvd).data>>)]_vars

\* A Zip has emitted its second pair, (1, 12), one cycle after the right
\* element, which came later than the left one.
ZipPairsSeen ==
    /\ Len(Zipped) = 2 /\ Zipped[2].data = <<1, 12>>
    /\ chan[1].rcvd[2].time < chan[2].rcvd[2].time
    /\ Zipped[2].time = chan[2].rcvd[2].time + 1

----------------------------------------------------------------------------
(* The Scan of the agnostic pipeline on its own: rows of N scores, every   *)
(* sequence of scores over -1, 0, 1, fanned out to two sinks.              *)

ScoreValues == {QInt(-1), QInt(0), QInt(1)}

ScanGraphs ==
    {Graph("softmax",
           <<Generator(1, scores),
             Block("scan", <<1>>, <<3, 4>>, "softmax", N, 1, 1, 0, <<>>),
             Consumer(3), Consumer(4)>>,
           [c \in {1, 3, 4} |-> d],
           Params(N, 0, 0, 0, Len(scores), 0))
        : scores \in UNION {[1..len -> ScoreValues] : len \in Lengths},
          N \in Windows, d \in Depths}

SpecScan ==
    /\ \E g \in ScanGraphs : Start(g)
    /\ [][\E b \in BlockIds :
            \/ GeneratorStep(b)
            \/ ConsumerStep(b)
            \/ ScanRun(b)
            \/ BroadcastWait(b)
            \/ BroadcastEnqueue(b)]_vars

\* The scores of the row of the i-th score, up to it; the greatest of some
\* scores.
RowStart(i) == i - ((i - 1) % net.par.N)
RowSoFar(i) == {Fed(1)[j] : j \in RowStart(i)..i}
Greatest(S) == CHOOSE x \in S : \A y \in S : QLeq(y, x)

----------------------------------------------------------------------------
(* Whole windows only *)

\* The inputs a Reduce took for its j-th window.
WindowTaken(j) ==
    SubSeq(Data(chan[1].rcvd), (j - 1) * net.B[Tested].W + 1, j * net.B[Tested].W)

\* C32: a Reduce goes from window to window until the first dequeue of a
\* window finds the input exhausted, and returns there; every value it
\* emits is the fold of the W consecutive inputs of one window, one value
\* per whole window in order; when the input ends inside a window it
\* panics and that window's accumulator is never emitted.
WholeWindowsOnly ==
    /\ [](net.variant = "reduce" =>
            /\ \A j \in DOMAIN Emitted :
                  /\ j * net.B[Tested].W <= Len(chan[1].rcvd)
                  /\ Emitted[j].data = SumFromTo(WindowTaken(j), 1, net.B[Tested].W)
            /\ (blk[Tested].pc = "run" /\ WholeWindows) =>
                  Len(Emitted) = Len(chan[1].rcvd) \div net.B[Tested].W
            /\ blk[Tested].pc = "done" =>
                  /\ Drained(1) /\ WholeWindows
                  /\ Len(Emitted) * net.B[Tested].W = Len(Fed(1))
            /\ blk[Tested].pc = "panic" =>
                  /\ ~WholeWindows /\ blk[Tested].held = None
                  /\ Len(Emitted) = Len(Fed(1)) \div net.B[Tested].W)
    /\ [][(net.variant = "reduce" /\ blk[Tested].pc = "run"
              /\ blk'[Tested].pc \in {"done", "panic"}) =>
            /\ Drained(1) /\ Emitted' = Emitted
            /\ blk'[Tested].pc = "done" <=> WholeWindows]_vars

\* A Reduce over windows of 2 has panicked on the end of its input inside
\* its second window, one value emitted for the three inputs it took.
WholeWindowsOnlySeen ==
    /\ net.variant = "reduce" /\ net.B[Tested].W = 2
    /\ blk[Tested].pc = "panic"
    /\ Len(chan[1].rcvd) = 3 /\ Len(Emitted) = 1
    /\ blk[Tested].acc # None

----------------------------------------------------------------------------
(* The agnostic pipeline at every channel depth *)

\* One batch through the agnostic pipeline, every shape at every depth:
\* channels shorter than, as long as, and longer than a row.
DepthGraphs ==
    {Agnostic(sh[1], sh[2], 1, depth, Ones) : sh \in BatchShapes, depth \in Depths}

NextAgnostic ==
    \E b \in BlockIds :
        \/ GeneratorStep(b)
        \/ ConsumerStep(b)
        \/ BroadcastWait(b)
        \/ BroadcastEnqueue(b)
        \/ ScanRun(b)
        \/ ReduceRun(b)
        \/ ReduceSend(b)
        \/ ZipRun(b)
        \/ FlatmapRun(b)

SpecDepth == (\E g \in DepthGraphs : Start(g)) /\ [][NextAgnostic]_vars

\* C33: fed N * N scores and N * N * D elements of V, the agnostic
\* pipeline never stops with a block that has not returned: whatever the
\* channel depth, some block can step until every block has exited.
AgnosticNeverStuck ==
    /\ net.par.len1 = net.par.N * net.par.N
    /\ net.par.len2 = net.par.N * net.par.N * net.par.D
    /\ NoPanic
    /\ AllExited \/ ENABLED NextAgnostic

\* A batch of rows of 2 went through channels of depth 1, each of which
\* carried more elements than it can hold at once.
AgnosticNeverStuckSeen ==
    /\ net.par.N = 2 /\ net.par.D = 2 /\ net.par.long = 1
    /\ AllExited
    /\ Len(blk[Sink].buf) = 4
    /\ \A c \in Chans : Len(chan[c].sent) > 1

----------------------------------------------------------------------------------------------------------------------------------------
(* The values delivered, whatever the interleaving *)

\* The primitives on their own, fed streams of every length (whole
\* windows or not, inputs of equal length or not), and the fan-outs, one
\* of them with a receiver that returns before the sender has finished.
PrimitiveGraphs == EndGraphs \cup FunGraphs \cup MapGraphs \cup FanGraphs

\* What each sink has received.
Delivered == [b \in {x \in Blocks : net.B[x].kind = "sink"} |-> Data(blk[b].buf)]

\* The run has stopped (every block returned, panicked or blocked for
\* good); what the sinks received is kept and the graph is run again.
RerunValues ==
    /\ ~ENABLED Next /\ ref = None
    /\ ref' = Some(Delivered)
    /\ chan' = [c \in Chans |-> NewChan(net.C[c])]
    /\ blk' = [b \in Blocks |-> BlockInit]
    /\ UNCHANGED net

\* The primitives, and one batch through each pipeline, V whole or cut
\* short; every graph is run twice.
SpecSame ==
    /\ (\E g \in PrimitiveGraphs : Start(g)) \/ (\E g \in BatchGraphs : Start(g))
    /\ [][Next \/ RerunValues]_vars

\* In "fanjoin" a receiver of the block returns while the block still
\* sends: the block panics on the closed target at a point of its stream
\* that depends on the interleaving.
ReceiversOutlive == net.variant # "fanjoin"

\* C34 as stated: the sequence of values delivered on every output is the
\* same in every interleaving, for every graph.
SameValuesEverywhere ==
    (ref # None /\ ~ENABLED Next) =>
        \A b \in DOMAIN Delivered : Delivered[b] = ref[1][b]

\* C34, amended: whatever the interleaving of the steps of the blocks, a second run
\* of a graph delivers to each sink the values the first run delivered, in
\* the same order: the sequence of one run is never anything but a prefix
\* of the other's, and the two are the same once the run has stopped; a
\* block cut short by a receiver that returned first delivers the same
\* values in the same order as far as it gets.
SameValues ==
    ref # None =>
        \A b \in DOMAIN Delivered :
            /\ IsPrefix(Delivered[b], ref[1][b]) \/ IsPrefix(ref[1][b], Delivered[b])
            /\ ReceiversOutlive =>
                  /\ IsPrefix(Delivered[b], ref[1][b])
                  /\ ~ENABLED Next => Delivered[b] = ref[1][b]

\* Both runs of the agnostic pipeline over rows of 2 scores and vectors of
\* 2 elements have stopped, four values delivered by each.
SameValuesSeen ==
    /\ ref # None /\ ~ENABLED Next
    /\ net.variant = "agnostic" /\ net.par.N = 2 /\ net.par.D = 2
    /\ Len(Outputs) = 4 /\ Len(ref[1][Sink]) = 4

----------------------------------------------------------------------------
(* Inputs of unequal length into a Map or a Flatmap *)

MultiInput == net.B[Tested].kind \in {"map", "flatmap"} /\ Len(net.B[Tested].ins) > 1

\* The inputs of the block that hold an element, and the exhausted ones.
Holding == {c \in Range(net.B[Tested].ins) : RecvOk(chan, c)}
Exhausted == {c \in Range(net.B[Tested].ins) : Drained(c)}

\* C35: the iteration in which a Map or Flatmap of several inputs finds
\* one of them exhausted takes one element from every input that still
\* holds one, emits nothing and returns; the block never panics, and once
\* it has returned it has taken one element more than it has used from
\* every input longer than the shortest.
UnequalInputsDropped ==
    /\ [](MultiInput =>
            /\ blk[Tested].pc # "panic"
            /\ blk[Tested].pc = "done" =>
                  \A c \in Range(net.B[Tested].ins) :
                      /\ Len(chan[c].rcvd) = SetMin({Len(Fed(c)), TupleCount + 1})
                      /\ Data(chan[c].rcvd) = SubSeq(Fed(c), 1, Len(chan[c].rcvd)))
    /\ [][(/\ MultiInput /\ blk[Tested].pc = "run" /\ blk'[Tested] # blk[Tested]
           /\ Exhausted # {}) =>
            /\ blk'[Tested].pc = "done" /\ blk'[Tested].held = None
            /\ Emitted' = Emitted
            /\ \A c \in Holding :
                  /\ chan'[c].q = Tail(chan[c].q)
                  /\ chan'[c].rcvd = Append(chan[c].rcvd, Head(chan[c].q))
            /\ \A c \in Exhausted : chan'[c].rcvd = chan[c].rcvd]_vars

\* A Flatmap of two inputs has returned: its first input ended after one
\* element, and of the three of its second it has taken two, the second
\* of them without any output.
UnequalInputsDroppedSeen ==
    /\ net.B[Tested].kind = "flatmap" /\ Len(net.B[Tested].ins) = 2
    /\ blk[Tested].pc = "done"
    /\ Len(Fed(1)) = 1 /\ Len(Fed(2)) = 3
    /\ Len(chan[1].rcvd) = 1 /\ Len(chan[2].rcvd) = 2

----------------------------------------------------------------------------
(* A Matmul with one stream exhausted at the start of a batch *)

IsMatmul == net.variant \in {"mmbuf", "mmrep"}

\* The Matmul under test looks at its streams at m = n = k = 0 and finds
\* exactly one of them exhausted.
OneSideEnded(pc, ended, other) ==
    /\ blk[Tested].pc = pc /\ AtBatchStart(blk[Tested])
    /\ blk'[Tested] # blk[Tested]
    /\ Drained(ended) /\ RecvOk(chan, other)

\* The MACs done when the Matmul returned.
MacsAtReturn == Len(Emitted) * net.B[Tested].K

\* C36: a Matmul that finds only one of its streams exhausted at the start
\* of a batch returns and never panics there.  Buffered returns on the
\* end of its left stream with the right element it has peeked still in
\* the channel, and on the end of its right stream without looking at the
\* left one; Repeated returns having taken the element of the other
\* stream, which goes into no output.
OneSidedBatchStart ==
    /\ [][/\ (net.variant = "mmbuf" /\ OneSideEnded("left", 1, 2)) =>
                /\ blk'[Tested].pc = "done" /\ Emitted' = Emitted
                /\ chan'[2].q = chan[2].q /\ chan'[2].rcvd = chan[2].rcvd
          /\ (net.variant = "mmbuf" /\ OneSideEnded("run", 2, 1)) =>
                /\ blk'[Tested].pc = "done" /\ Emitted' = Emitted
                /\ chan'[1].q = chan[1].q /\ chan'[1].rcvd = chan[1].rcvd
          /\ \A c \in {1, 2} :
                (net.variant = "mmrep" /\ OneSideEnded("run", c, 3 - c)) =>
                    /\ blk'[Tested].pc = "done" /\ Emitted' = Emitted
                    /\ chan'[3 - c].q = Tail(chan[3 - c].q)
                    /\ chan'[3 - c].rcvd = Append(chan[3 - c].rcvd, Head(chan[3 - c].q))]_vars
    /\ []((IsMatmul /\ blk[Tested].pc = "done") =>
            /\ net.variant = "mmbuf" =>
                  /\ Len(chan[2].rcvd) = MacsAtReturn
                  /\ Len(chan[1].rcvd) * net.B[Tested].N = MacsAtReturn
            /\ net.variant = "mmrep" =>
                  \A c \in {1, 2} :
                      Len(chan[c].rcvd) = SetMin({Len(Fed(c)), MacsAtReturn + 1}))

\* A Buffered Matmul has returned before its first batch, its left stream
\* empty, with the elements of its right stream left in the channel.
OneSidedBatchStartSeen ==
    /\ net.variant = "mmbuf" /\ blk[Tested].pc = "done"
    /\ Len(Fed(1)) = 0 /\ Len(Fed(2)) = 2
    /\ Len(chan[2].q) = 2 /\ chan[2].rcvd = <<>>

----------------------------------------------------------------------------
(* A receiver that returns before its sender *)

\* The block under test feeds channel 3 (and a sink on channel 6, when it
\* broadcasts); channel 3 is read by a Map of two inputs whose other
\* input, channel 4, is len4 elements long: the Map returns after len4
\* tuples and leaves the block under test with a closed target.
Closing(blockUnderTest, len, len4, depth) ==
    LET gens == [i \in DOMAIN blockUnderTest.ins |-> Generator(blockUnderTest.ins[i], Iota(len))]
        sinks == IF 6 \in Range(blockUnderTest.outs)
                 THEN <<Consumer(5), Consumer(6)>> ELSE <<Consumer(5)>>
    IN Graph("closing",
             gens \o <<blockUnderTest, Generator(4, Iota(len4)),
                       Block("map", <<3, 4>>, <<5>>, "", 0, 1, 1, 0, <<>>)>> \o sinks,
             [c \in Range(blockUnderTest.ins) \cup Range(blockUnderTest.outs) \cup {4, 5}
                 |-> depth],
             Params(0, 0, 0, 0, len, len4))

ClosingTargets == {<<3>>, <<3, 6>>, <<6, 3>>}

ClosingGraphs ==
    UNION {
      {Closing(Block(kind, <<1>>, outs, IF kind = "map" THEN "add5" ELSE "range",
                     0, 1, 1, 0, <<>>), len, len4, d)
          : kind \in {"map", "flatmap"}, outs \in ClosingTargets,
            len \in Lengths, len4 \in {0, 1}, d \in Depths},
      {Closing(Block(kind, <<1>>, outs, "add", W, 1, 1, 0, <<>>), len, len4, d)
          : kind \in {"scan", "repeat"}, outs \in ClosingTargets, W \in Windows,
            len \in Lengths, len4 \in {0, 1}, d \in Depths},
      {Closing(Block("zip", <<1, 2>>, outs, "", 0, 0, 0, 0, <<>>), len, len4, d)
          : outs \in ClosingTargets, len \in Lengths, len4 \in {0, 1}, d \in Depths},
      {Closing(Block("reduce", <<1>>, <<3>>, "add", W, 1, 1, 0, <<>>), len, len4, d)
          : W \in Windows, len \in Lengths, len4 \in {0, 1}, d \in Depths},
      {Closing(MatmulBlock(kind, 1, 2, 3, "mac", 1, 2, 1, 1, 1, 0), len, len4, d)
          : kind \in {"mmbuf", "mmrep"}, len \in Lengths, len4 \in {0, 1}, d \in Depths}
    }

SpecClosing == (\E g \in ClosingGraphs : Start(g)) /\ [][Next]_vars

Primitives == {b \in Blocks : net.B[b].kind \notin {"gen", "sink"}}

\* The targets the block still has to find available in its enqueue, and
\* the closed ones among them.
TargetsAhead(b) ==
    IF blk[b].pc = "wait"
    THEN {net.B[b].outs[i] : i \in blk[b].w..Len(net.B[b].outs)}
    ELSE IF blk[b].pc = "send" THEN Range(net.B[b].outs) ELSE {}
ClosedAhead(b) == {c \in TargetsAhead(b) : SendClosed(chan, c)}

----------------------------------------------------------------------------
(* The windows of the agnostic pipeline *)

\* The Scan of the agnostic pipeline and the two Reduces over rows that
\* fold its RunningResults: the residual, which gets them from the Scan,
\* and the vector product, which gets them paired with a row of V.
RowScan == CHOOSE b \in Blocks : net.B[b].kind = "scan"
RowReduces == {b \in Blocks : net.B[b].f \in {"residual", "vecprod"}}

\* The elements reducer b has taken, and the RunningResult in an element.
TakenBy(b) == chan[net.B[b].ins[1]].rcvd
WaitingFor(b) == chan[net.B[b].ins[1]].q
RunningOf(b, el) == IF net.B[b].f = "vecprod" THEN el.data[1] ELSE el.data

\* The residual of the row after its score number k of the stream: the
\* sum of exp(s - max) over the scores of the row so far.
ResidualSoFar(k) ==
    QSum([j \in 1..(k - RowStart(k) + 1) |->
            QExp(QSub(Fed(1)[RowStart(k) + j - 1], Greatest(RowSoFar(k))))])

\* C38: in the agnostic pipeline the Scan and the two Reduces over rows
\* open their windows on the same elements.  The Scan has no previous
\* state exactly at the first score of a row; the element a Reduce folds
\* with its accumulator absent is the RunningResult of the first score of
\* a row, the one the Scan made with no previous state, and the element
\* it folds with its accumulator present is one the Scan made from the
\* RunningResult before it; the residual accumulated is the sum of
\* exp(s - max) over the row so far, in which delta_max = s and
\* delta_elem = exp(s) of a first element have no part.
WindowsAligned ==
    /\ blk[RowScan].pc = "run" =>
          (blk[RowScan].acc = None <=> Len(chan[1].rcvd) % net.par.N = 0)
    /\ \A b \in RowReduces :
          /\ blk[b].acc = None <=> Len(TakenBy(b)) % net.par.N = 0
          /\ WaitingFor(b) # <<>> =>
                LET k == Len(TakenBy(b)) + 1
                    new == RunningOf(b, Head(WaitingFor(b)))
                IN /\ new = chan[net.B[RowScan].outs[1]].sent[k].data
                   /\ new = ScanF("softmax", Fed(1)[k],
                                  IF blk[b].acc = None THEN None
                                  ELSE Some(RunningOf(b, Last(TakenBy(b)))))
                   /\ blk[b].acc = None =>
                         new = [cur_max |-> Fed(1)[k], delta_max |-> Fed(1)[k],
                                exp |-> QInt(1), delta_elem |-> QExp(Fed(1)[k])]
          /\ (net.B[b].f = "residual" /\ blk[b].acc # None) =>
                blk[b].acc[1] = ResidualSoFar(Len(TakenBy(b)))

\* Both Reduces are in the second row of two scores, their accumulators
\* absent, the RunningResult of its first score at the head of their
\* inputs: delta_max is that score, 1, not a difference of maxima.
WindowsAlignedSeen ==
    /\ net.variant = "agnostic" /\ net.par.N = 2
    /\ \A b \in RowReduces :
          /\ Len(TakenBy(b)) = 2 /\ blk[b].acc = None
          /\ WaitingFor(b) # <<>>
          /\ RunningOf(b, Head(WaitingFor(b))).delta_max = QInt(1)

----------------------------------------------------------------------------
(* Windows and shapes of zero *)

\* Scan and Reduce with reset_freq 0 and 1, both Matmuls with M = 0 and
\* M = 1, on streams of every length.
ZeroGraphs ==
    UNION {
      {OneInput(kind, Block(kind, <<1>>, <<3>>, "add", W, 1, 1, rst, <<>>), len, d)
          : kind \in {"scan", "reduce"}, W \in {0, 1}, rst \in {0, 1},
            len \in Lengths, d \in Depths},
      {TwoInputs(kind, MatmulBlock(kind, 1, 2, 3, "mac", M, 1, 2, 1, 1, rst), len, len, d)
          : kind \in {"mmbuf", "mmrep"}, M \in {0, 1}, rst \in {0, 1},
            len \in Lengths, d \in Depths}
    }

SpecZero ==
    /\ \E g \in ZeroGraphs : Start(g)
    /\ [][\E b \in BlockIds :
            \/ GeneratorStep(b)
            \/ ConsumerStep(b)
            \/ BroadcastWait(b)
            \/ BroadcastEnqueue(b)
            \/ ScanRun(b)
            \/ ReduceRun(b)
            \/ ReduceSend(b)
            \/ BufferedPeek(b)
            \/ BufferedLeft(b)
            \/ RepeatedRun(b)
            \/ MatmulSend(b)]_vars

\* The block under test has a window, or a shape, of zero.
ZeroWindow(kind) == net.B[Tested].kind = kind /\ net.B[Tested].W = 0
ZeroRows == net.variant \in {"mmbuf", "mmrep"} /\ net.B[Tested].M = 0

\* The block under test has taken nothing from its inputs, has released
\* none of them and has emitted nothing; the sink is still waiting.
Untouched ==
    /\ \A c \in Range(net.B[Tested].ins) : chan[c].rcvd = <<>> /\ ~chan[c].rclosed
    /\ Emitted = <<>> /\ ~chan[3].sclosed
    /\ blk[Sink].pc = "run"

\* C39: a Scan with reset_freq = 0 and a Matmul with M = 0 never dequeue
\* and never return or panic, closed inputs or not; a Reduce with
\* reset_freq = 0 takes nothing either and its first step is the panic of
\* accum.unwrap() at its first emit: in none of the three does the
\* closure of the input shut the graph down.
ZeroNeverShutsDown ==
    /\ []((ZeroWindow("scan") \/ ZeroRows) =>
            /\ Untouched
            /\ blk[Tested].pc \in {"run", "spin"})
    /\ [](ZeroWindow("reduce") =>
            /\ Untouched
            /\ blk[Tested].pc \in {"run", "panic"} /\ blk[Tested].held = None)
    /\ [][(ZeroWindow("reduce") /\ blk'[Tested] # blk[Tested]) =>
            blk[Tested].pc = "run" /\ blk'[Tested].pc = "panic"]_vars

\* The input of a Scan with reset_freq = 0 is closed, two elements in it;
\* the Scan loops without having taken one.
ZeroNeverShutsDownSeen ==
    /\ ZeroWindow("scan") /\ blk[Tested].pc = "spin"
    /\ chan[1].sclosed /\ Len(chan[1].q) = 2
    /\ blk[Sink].pc = "run"

====
